---------------------------- MODULE Spec2Model ----------------------------
(***************************************************************************)
(* Block preconditioners of ambit_fe/solver/preconditioner.py              *)
(* (schur_2x2, simple_2x2, schur_3x3, schur_bgssym_4x4, schur_bgs_4x4,     *)
(* bgs_2x2, jacobi_2x2) as a state machine over exact rational arithmetic. *)
(*                                                                         *)
(* A scalar is a pair <<n, d>> in lowest terms with d > 0; <<0, 0>> is the *)
(* not-a-number value produced by a division by zero, and it propagates    *)
(* through every arithmetic operation.  A vector is a sequence of scalars, *)
(* a matrix a sequence of rows.  Degrees of freedom are numbered from 1;   *)
(* the Python field index n is position n+1 of iset, precond_fields,       *)
(* ksp_fields and schur_block_scaling.                                     *)
(***************************************************************************)
EXTENDS Integers, Sequences, FiniteSets, TLC

(***************************************************************************)
(* Bounds of the model.                                                    *)
(***************************************************************************)
\* the assembler writes Operator(1, n) and Operator(MaxOperator, n)
MaxOperator == 2
\* the configured scaling factors 'val' are 1 and MaxVal
MaxVal == 2

(***************************************************************************)
(* Scalars (PETSc.ScalarType, idealised as exact rationals).               *)
(***************************************************************************)
IAbs(i) == IF i < 0 THEN -i ELSE i

RECURSIVE GCD(_, _)
GCD(a, b) == IF b = 0 THEN a ELSE GCD(b, a % b)

NaN == <<0, 0>>

Norm(n, d) ==
    IF d = 0 THEN NaN
    ELSE LET g == GCD(IAbs(n), IAbs(d))
             s == IF d < 0 THEN -1 ELSE 1
         IN  <<(s * n) \div g, (s * d) \div g>>

Q(i) == <<i, 1>>
Zero == Q(0)
One == Q(1)

\* common factors are cancelled before multiplying, to keep the integers small
RAdd(a, b) ==
    IF a[2] = 0 \/ b[2] = 0 THEN NaN
    ELSE LET g == GCD(a[2], b[2])
         IN  Norm(a[1] * (b[2] \div g) + b[1] * (a[2] \div g), (a[2] \div g) * b[2])
RMul(a, b) ==
    IF a[2] = 0 \/ b[2] = 0 THEN NaN
    ELSE LET g1 == GCD(IAbs(a[1]), b[2])
             g2 == GCD(IAbs(b[1]), a[2])
         IN  Norm((a[1] \div g1) * (b[1] \div g2), (a[2] \div g2) * (b[2] \div g1))
RNeg(a) == <<-a[1], a[2]>>
RSub(a, b) == RAdd(a, RNeg(b))
RDiv(a, b) ==
    IF b[1] = 0 THEN NaN
    ELSE RMul(a, IF b[1] < 0 THEN <<-b[2], -b[1]>> ELSE <<b[2], b[1]>>)
\* Vec.abs(), entrywise
RAbs(a) == <<IAbs(a[1]), a[2]>>
\* Vec.reciprocal(), entrywise: PETSc leaves a zero entry zero
RRecip(a) == IF a = Zero THEN Zero ELSE RDiv(One, a)

(***************************************************************************)
(* Vectors and matrices (the PETSc.Vec / PETSc.Mat operations used).       *)
(***************************************************************************)
\* createVecLeft / createMPI: a zero vector of the given size
ZeroVec(n) == [i \in 1..n |-> Zero]

NRows(M) == Len(M)
NCols(M) == IF Len(M) = 0 THEN 0 ELSE Len(M[1])

RECURSIVE SumSeq(_)
SumSeq(s) == IF Len(s) = 0 THEN Zero ELSE RAdd(Head(s), SumSeq(Tail(s)))

\* Vec.set(c)
VecSet(v, c) == [i \in 1..Len(v) |-> c]
\* Vec.scale(c)
VecScale(v, c) == [i \in 1..Len(v) |-> RMul(c, v[i])]
\* Vec.axpy(alpha, x): y <- y + alpha x
VecAXPY(y, alpha, x) == [i \in 1..Len(y) |-> RAdd(y[i], RMul(alpha, x[i]))]
\* Vec.axpby(alpha, beta, x): y <- alpha x + beta y; PETSc copies when beta = 0
VecAXPBY(y, alpha, beta, x) ==
    IF beta = Zero THEN [i \in 1..Len(y) |-> RMul(alpha, x[i])]
    ELSE [i \in 1..Len(y) |-> RAdd(RMul(alpha, x[i]), RMul(beta, y[i]))]
VecAbs(v) == [i \in 1..Len(v) |-> RAbs(v[i])]
VecReciprocal(v) == [i \in 1..Len(v) |-> RRecip(v[i])]

\* Mat.mult(x, y): y <- M x
MatMultVec(M, x) ==
    [i \in 1..NRows(M) |-> SumSeq([j \in 1..NCols(M) |-> RMul(M[i][j], x[j])])]
\* Mat.matMult(N): M N
MatMatMult(M, N) ==
    [i \in 1..NRows(M) |->
        [j \in 1..NCols(N) |->
            SumSeq([k \in 1..NCols(M) |-> RMul(M[i][k], N[k][j])])]]
\* Mat.axpy(alpha, X): Y <- Y + alpha X
MatAXPY(Y, alpha, X) ==
    [i \in 1..NRows(Y) |->
        [j \in 1..NCols(Y) |-> RAdd(Y[i][j], RMul(alpha, X[i][j]))]]
\* Mat.getDiagonal()
MatGetDiagonal(M) == [i \in 1..NRows(M) |-> M[i][i]]
\* Mat.getRowSum(): the plain (signed) sum of each row
MatGetRowSum(M) == [i \in 1..NRows(M) |-> SumSeq(M[i])]
\* createAIJ(..., nnz=(1,1)); setUp; assemble; shift(1.): the identity
MatIdentity(n) == [i \in 1..n |-> [j \in 1..n |-> IF i = j THEN One ELSE Zero]]
\* Mat.setDiagonal(v, INSERT) on a matrix with a diagonal pattern
MatSetDiagonal(M, v) ==
    [i \in 1..NRows(M) |-> [j \in 1..NCols(M) |-> IF i = j THEN v[i] ELSE M[i][j]]]
\* Mat.createSubMatrix(isrow, iscol): a fresh copy of the block
MatCreateSubMatrix(M, isrow, iscol) ==
    [i \in 1..Len(isrow) |-> [j \in 1..Len(iscol) |-> M[isrow[i]][iscol[j]]]]
\* Vec.getSubVector(iset)
VecGetSubVector(v, is) == [i \in 1..Len(is) |-> v[is[i]]]
\* Vec.setValues(iset, array) (and restoreSubVector): overwrite the entries at iset
VecSetValues(v, is, arr) ==
    [k \in 1..Len(v) |->
        IF \E i \in 1..Len(is) : is[i] = k
        THEN arr[CHOOSE i \in 1..Len(is) : is[i] = k]
        ELSE v[k]]

\* KSP preonly + PC lu: x = M^{-1} b by Gaussian elimination with the first
\* nonzero pivot; a singular M yields not-a-number entries
RECURSIVE LUSolve(_, _)
LUSolve(M, b) ==
    LET n == Len(M) IN
    IF n = 0 THEN << >>
    ELSE LET piv == {i \in 1..n : M[i][1] # Zero}
         IN  IF piv = {} THEN [i \in 1..n |-> NaN]
             ELSE LET p == CHOOSE i \in piv : \A j \in piv : i <= j
                      row(k) == IF k < p THEN k ELSE k + 1
                      f(k) == RDiv(M[row(k)][1], M[p][1])
                      M2 == [k \in 1..(n - 1) |->
                               [j \in 1..(n - 1) |->
                                  RSub(M[row(k)][j + 1], RMul(f(k), M[p][j + 1]))]]
                      b2 == [k \in 1..(n - 1) |-> RSub(b[row(k)], RMul(f(k), b[p]))]
                      xs == LUSolve(M2, b2)
                      x1 == RDiv(RSub(b[p],
                                      SumSeq([j \in 1..(n - 1) |->
                                                 RMul(M[p][j + 1], xs[j])])),
                                 M[p][1])
                  IN  <<x1>> \o xs


(***************************************************************************)
(* Python objects.  An object is a function from attribute names to        *)
(* values; reading an attribute that was never assigned is an              *)
(* AttributeError.  A method takes and returns a "world" record            *)
(*   [self, P, x, y, err, ret]                                             *)
(* self: the preconditioner instance; P: the caller's global operator      *)
(* (self.P is a reference to it, not a copy); x, y: the caller's vectors   *)
(* passed to apply; err: the exception raised, "none" if the call          *)
(* returned; ret: the value returned (the attribute names of the matrices  *)
(* init_mat_vec hands to the field solvers).                               *)
(***************************************************************************)
NoObject == << >>
HasAttr(s, k) == k \in DOMAIN s
SetAttr(s, k, v) == [a \in (DOMAIN s) \cup {k} |-> IF a = k THEN v ELSE s[a]]
\* assign every attribute of record r
SetAttrs(s, r) ==
    [a \in (DOMAIN s) \cup (DOMAIN r) |-> IF a \in DOMAIN r THEN r[a] ELSE s[a]]
\* dict lookup with the default of a try/except
GetOr(d, k, default) == IF k \in DOMAIN d THEN d[k] ELSE default

Raise(w, e) == [w EXCEPT !.err = e]
Assign(w, r) == [w EXCEPT !.self = SetAttrs(w.self, r)]
Return(w, v) == [w EXCEPT !.ret = v]

\* a statement "name = e" followed by the rest of the body: F applied to the
\* value of e, computed once
Bind(e, F(_)) == CHOOSE r \in {F(v) : v \in {e}} : TRUE

(***************************************************************************)
(* class block_precond                                                     *)
(***************************************************************************)
\* schur_block_scaling as given in solparams is [kind |-> "list", items |-> <<..>>]
\* for a Python list and [kind |-> "dict", item |-> [type, val]] for a single entry
DefaultScaling == [type |-> "diag", val |-> Q(1)]

block_precond_init(iset, precond_fields, solparams) ==
    LET s0 == [iset |-> iset,
               precond_fields |-> precond_fields,
               nfields |-> Len(precond_fields)]
        w0 == [self |-> s0, err |-> "none", ret |-> << >>]
        given == GetOr(solparams, "schur_block_scaling",
                       [kind |-> "list", items |-> <<DefaultScaling, DefaultScaling>>])
        scaling == IF given.kind = "list" THEN given.items
                   ELSE <<given.item, given.item>>
    IN  IF Len(iset) # Len(precond_fields)
        THEN Raise(w0, "AssertionError")
        ELSE Assign(w0, [solparams |-> solparams, schur_block_scaling |-> scaling])

\* the matrix attributes of an instance: extracted blocks and matrix products
BlockAttrs == {"A", "Bt", "B", "C", "Dt", "Et", "D", "E", "R", "G", "Ft", "F"}
ProductAttrs == {"Adinv_Bt", "B_Adinv_Bt", "DBt", "Adinv_Dt", "B_Adinv_Dt",
                 "D_Adinv_Dt", "Smoddinv_Tmod", "Bt_Smoddinv_Tmod",
                 "Adinv_Bt_Smoddinv_Tmod", "D_Adinv_Bt_Smoddinv_Tmod",
                 "E_Smoddinv_Tmod"}

\* a KSP object right after PETSc.KSP().create()
\* id tells the objects apart: it is the number of KSP objects created so far
NewKSP(id) == [id |-> id, type |-> "default", pc |-> "default",
               hypre |-> "default", tol |-> "default", py |-> "none",
               op |-> "none"]

\* KSP.solve(b, x) with a zero initial guess, on the matrix bound by setOperators.
\* pc 'lu' under 'preonly' is the exact solve; an AMG-preconditioned solve is
\* inexact, represented by one diagonal (Jacobi) sweep
KSPSolve(s, n, b) ==
    LET ksp == s.ksp_fields[n]
        M == s[ksp.op]
    IN  IF ksp.pc = "lu" THEN LUSolve(M, b)
        ELSE [i \in 1..Len(b) |-> RDiv(b[i], M[i][i])]

\* self.ksp_fields[n].solve(self.<b>, self.<out>): the result is written into
\* the work vector out, and the call is recorded in the log of KSP solves
Solve(w, n, b, out) ==
    Bind(KSPSolve(w.self, n, w.self[b]), LAMBDA r :
    [Assign(w, [a \in {out} |-> r]) EXCEPT
        !.log = Append(w.log, [ksp |-> w.self.ksp_fields[n].id,
                               op |-> w.self.ksp_fields[n].op,
                               b |-> w.self[b], x |-> r])])

\* the four blocks of a 2-field partition, as createSubMatrix extracts them
Blocks2(P0, is) ==
    [A |-> MatCreateSubMatrix(P0, is[1], is[1]),
     Bt |-> MatCreateSubMatrix(P0, is[1], is[2]),
     B |-> MatCreateSubMatrix(P0, is[2], is[1]),
     C |-> MatCreateSubMatrix(P0, is[2], is[2])]

\* the nine blocks of a 3-field partition
Blocks3(P0, is) ==
    [A |-> MatCreateSubMatrix(P0, is[1], is[1]),
     Bt |-> MatCreateSubMatrix(P0, is[1], is[2]),
     Dt |-> MatCreateSubMatrix(P0, is[1], is[3]),
     B |-> MatCreateSubMatrix(P0, is[2], is[1]),
     C |-> MatCreateSubMatrix(P0, is[2], is[2]),
     Et |-> MatCreateSubMatrix(P0, is[2], is[3]),
     D |-> MatCreateSubMatrix(P0, is[3], is[1]),
     E |-> MatCreateSubMatrix(P0, is[3], is[2]),
     R |-> MatCreateSubMatrix(P0, is[3], is[3])]

(***************************************************************************)
(* class schur_2x2                                                         *)
(***************************************************************************)
schur_2x2_check_field_size(s) == s.nfields = 2

\* the branch of init_mat_vec that allocates the scaling vector of block M
InitScalingVec(type, M) ==
    IF type = "diag" THEN MatGetDiagonal(M)
    ELSE IF type = "rowsum" THEN MatGetRowSum(M)
    ELSE VecSet(ZeroVec(NRows(M)), One)

\* variant: the final else branch serves every other type instead of raising
KnownScaling_Lenient == {"diag", "rowsum", "none", "lumped"}

KnownScaling == {"diag", "rowsum", "none"}

\* the work vectors of the 2-field schemes
WorkVecs2(s) ==
    [x1 |-> ZeroVec(NRows(s.A)), x2 |-> ZeroVec(NRows(s.C)),
     y1 |-> ZeroVec(NRows(s.A)), y2 |-> ZeroVec(NRows(s.C)),
     z2 |-> ZeroVec(NRows(s.C)), By1 |-> ZeroVec(NRows(s.B))]

\* variant: the first products are formed with the configured factor on the
\* diagonal instead of the identity
schur_2x2_init_mat_vec_Scaled(w) ==
    LET is == w.self.iset
        sc == w.self.schur_block_scaling
    IN
    IF Len(is) < 2
    THEN Raise(Assign(w, [A |-> MatCreateSubMatrix(w.P, is[1], is[1])]), "IndexError")
    ELSE
    Bind(Assign(w, Blocks2(w.P, is)), LAMBDA w1 :
    Bind(Assign(w1, [Adinv |-> MatIdentity(NRows(w1.self.A))]), LAMBDA w2 :
    IF Len(sc) < 1 THEN Raise(w2, "IndexError") ELSE
    IF sc[1].type \notin KnownScaling THEN Raise(w2, "ValueError") ELSE
    Bind(Assign(w2, [adinv_vec |-> InitScalingVec(sc[1].type, w2.self.A),
                     Adinv_Bt |->
                        MatMatMult(MatSetDiagonal(w2.self.Adinv,
                                       VecSet(ZeroVec(NRows(w2.self.A)),
                                              sc[1].val)),
                                   w2.self.Bt)]),
         LAMBDA w3 :
    Bind(Assign(w3, [B_Adinv_Bt |-> MatMatMult(w3.self.B, w3.self.Adinv_Bt)]),
         LAMBDA w4 :
    Bind(Assign(w4, [Smod |-> MatAXPY(w4.self.C, Q(-1), w4.self.B_Adinv_Bt)]),
         LAMBDA w5 :
    Bind(Assign(w5, WorkVecs2(w5.self)), LAMBDA w6 :
    Return(Assign(w6, [z1 |-> ZeroVec(NRows(w6.self.A)),
                       Bty2 |-> ZeroVec(NRows(w6.self.Bt))]),
           <<"A", "Smod">>)))))))

schur_2x2_init_mat_vec(w) ==
    LET is == w.self.iset
        sc == w.self.schur_block_scaling
    IN
    IF Len(is) < 2
    THEN Raise(Assign(w, [A |-> MatCreateSubMatrix(w.P, is[1], is[1])]), "IndexError")
    ELSE
    Bind(Assign(w, Blocks2(w.P, is)), LAMBDA w1 :
    Bind(Assign(w1, [Adinv |-> MatIdentity(NRows(w1.self.A))]), LAMBDA w2 :
    IF Len(sc) < 1 THEN Raise(w2, "IndexError") ELSE
    IF sc[1].type \notin KnownScaling THEN Raise(w2, "ValueError") ELSE
    Bind(Assign(w2, [adinv_vec |-> InitScalingVec(sc[1].type, w2.self.A),
                     Adinv_Bt |-> MatMatMult(w2.self.Adinv, w2.self.Bt)]),
         LAMBDA w3 :
    Bind(Assign(w3, [B_Adinv_Bt |-> MatMatMult(w3.self.B, w3.self.Adinv_Bt)]),
         LAMBDA w4 :
    Bind(Assign(w4, [Smod |-> MatAXPY(w4.self.C, Q(-1), w4.self.B_Adinv_Bt)]),
         LAMBDA w5 :
    Bind(Assign(w5, WorkVecs2(w5.self)), LAMBDA w6 :
    Return(Assign(w6, [z1 |-> ZeroVec(NRows(w6.self.A)),
                       Bty2 |-> ZeroVec(NRows(w6.self.Bt))]),
           <<"A", "Smod">>)))))))

\* variant: type 'diag' scales the diagonal itself, not its reciprocal
SetUpScalingVec_NoReciprocal(sc, M, vec) ==
    LET v == IF sc.type = "diag" THEN MatGetDiagonal(M)
             ELSE IF sc.type = "rowsum" THEN VecReciprocal(VecAbs(MatGetRowSum(M)))
             ELSE VecSet(vec, One)
    IN  VecScale(v, sc.val)

\* variant: the row sums are inverted without taking their absolute value
SetUpScalingVec_NoAbs(sc, M, vec) ==
    LET v == IF sc.type = "diag" THEN VecReciprocal(MatGetDiagonal(M))
             ELSE IF sc.type = "rowsum" THEN VecReciprocal(MatGetRowSum(M))
             ELSE VecSet(vec, One)
    IN  VecScale(v, sc.val)

\* variant: type 'none' does not reset the vector to ones before scaling it
SetUpScalingVec_Accumulate(sc, M, vec) ==
    LET v == IF sc.type = "diag" THEN VecReciprocal(MatGetDiagonal(M))
             ELSE IF sc.type = "rowsum" THEN VecReciprocal(VecAbs(MatGetRowSum(M)))
             ELSE vec
    IN  VecScale(v, sc.val)

\* the scaling vector a setUp computes for block M: reciprocal diagonal,
\* reciprocal absolute row sum, or ones, then scaled by the configured factor
SetUpScalingVec(sc, M, vec) ==
    LET v == IF sc.type = "diag" THEN VecReciprocal(MatGetDiagonal(M))
             ELSE IF sc.type = "rowsum" THEN VecReciprocal(VecAbs(MatGetRowSum(M)))
             ELSE VecSet(vec, One)
    IN  VecScale(v, sc.val)

\* variant: every rebinding replaces the solver by a newly created one
SetOperators_Recreate(s, names) ==
    [s EXCEPT !.ksp_fields =
        [n \in 1..Len(s.ksp_fields) |->
            IF n <= Len(names)
            THEN [s.ksp_fields[n] EXCEPT
                     !.id = s.ksp_fields[n].id + Len(s.ksp_fields),
                     !.op = names[n]]
            ELSE s.ksp_fields[n]]]

\* rebinding of the field solvers at the end of a setUp
SetOperators(s, names) ==
    [s EXCEPT !.ksp_fields =
        [n \in 1..Len(s.ksp_fields) |->
            IF n <= Len(names) THEN [s.ksp_fields[n] EXCEPT !.op = names[n]]
            ELSE s.ksp_fields[n]]]

\* "Schur complement reduction": hand A, C, B, Bt to the Python solver of field 1
SetMatVec(s) ==
    IF s.ksp_py_solver[2] # "None"
       /\ s.precond_fields[2].py_solver = "stat_iter_fixed_scr"
    THEN [s EXCEPT !.ksp_py_solver[2] =
             SetAttrs(s.ksp_py_solver[2],
                      [A |-> s.A, C |-> s.C, B |-> s.B, Bt |-> s.Bt])]
    ELSE s

\* variant: the products are refreshed but Smod keeps the values of init_mat_vec
schur_2x2_setUp_StaleSmod(w) ==
    LET sc == w.self.schur_block_scaling[1] IN
    Bind(Assign(w, Blocks2(w.P, w.self.iset)), LAMBDA w1 :
    IF sc.type \notin KnownScaling THEN Raise(w1, "ValueError") ELSE
    Bind(Assign(w1, [adinv_vec |->
                        SetUpScalingVec(sc, w1.self.A, w1.self.adinv_vec)]),
         LAMBDA w2 :
    Bind(Assign(w2, [Adinv |-> MatSetDiagonal(w2.self.Adinv, w2.self.adinv_vec)]),
         LAMBDA w3 :
    Bind(Assign(w3, [Adinv_Bt |-> MatMatMult(w3.self.Adinv, w3.self.Bt)]),
         LAMBDA w4 :
    Bind(Assign(w4, [B_Adinv_Bt |-> MatMatMult(w4.self.B, w4.self.Adinv_Bt)]),
         LAMBDA w5 :
    Bind(SetOperators(w5.self, <<"A", "Smod">>), LAMBDA s7 :
    [w5 EXCEPT !.self = SetMatVec(s7)]))))))

schur_2x2_setUp(w) ==
    LET sc == w.self.schur_block_scaling[1] IN
    Bind(Assign(w, Blocks2(w.P, w.self.iset)), LAMBDA w1 :
    IF sc.type \notin KnownScaling THEN Raise(w1, "ValueError") ELSE
    Bind(Assign(w1, [adinv_vec |->
                        SetUpScalingVec(sc, w1.self.A, w1.self.adinv_vec)]),
         LAMBDA w2 :
    Bind(Assign(w2, [Adinv |-> MatSetDiagonal(w2.self.Adinv, w2.self.adinv_vec)]),
         LAMBDA w3 :
    Bind(Assign(w3, [Adinv_Bt |-> MatMatMult(w3.self.Adinv, w3.self.Bt)]),
         LAMBDA w4 :
    Bind(Assign(w4, [B_Adinv_Bt |-> MatMatMult(w4.self.B, w4.self.Adinv_Bt)]),
         LAMBDA w5 :
    Bind(Assign(w5, [Smod |-> MatAXPY(w5.self.C, Q(-1), w5.self.B_Adinv_Bt)]),
         LAMBDA w6 :
    Bind(SetOperators(w6.self, <<"A", "Smod">>), LAMBDA s7 :
    [w6 EXCEPT !.self = SetMatVec(s7)])))))))

\* the attributes an apply of the 2-field schemes reads
Work2 == {"iset", "ksp_fields", "x1", "x2", "y1", "y2", "z2", "By1", "B"}

\* x.getSubVector for both fields
GetSub2(w) ==
    Assign(w, [x1 |-> VecGetSubVector(w.x, w.self.iset[1]),
               x2 |-> VecGetSubVector(w.x, w.self.iset[2])])

\* x.restoreSubVector for both fields, then y.setValues and y.assemble
SetValues2(w) ==
    LET is == w.self.iset IN
    [w EXCEPT !.x = VecSetValues(VecSetValues(w.x, is[1], w.self.x1),
                                 is[2], w.self.x2),
              !.y = VecSetValues(VecSetValues(w.y, is[1], w.self.y1),
                                 is[2], w.self.y2)]

\* variant: B is read from the global operator at the time of the apply
Forward2_LiveB(w) ==
    Bind(GetSub2(w), LAMBDA w1 :
    Bind(Solve(w1, 1, "x1", "y1"), LAMBDA w2 :
    Bind(Assign(w2, [By1 |-> MatMultVec(MatCreateSubMatrix(w2.P, w2.self.iset[2],
                                                           w2.self.iset[1]),
                                        w2.self.y1)]), LAMBDA w3 :
    Bind(Assign(w3, [z2 |-> VecAXPY(VecAXPBY(w3.self.z2, One, Zero, w3.self.x2),
                                    Q(-1), w3.self.By1)]), LAMBDA w4 :
    Solve(w4, 2, "z2", "y2")))))

\* the steps shared by the 2-field Schur and Gauss-Seidel applies:
\* y1 = A^-1 x1, z2 = x2 - B y1, y2 = S^-1 z2
Forward2(w) ==
    Bind(GetSub2(w), LAMBDA w1 :
    Bind(Solve(w1, 1, "x1", "y1"), LAMBDA w2 :
    Bind(Assign(w2, [By1 |-> MatMultVec(w2.self.B, w2.self.y1)]), LAMBDA w3 :
    Bind(Assign(w3, [z2 |-> VecAXPY(VecAXPBY(w3.self.z2, One, Zero, w3.self.x2),
                                    Q(-1), w3.self.By1)]), LAMBDA w4 :
    Solve(w4, 2, "z2", "y2")))))

\* variant: the back-substitution solve (step 3) is left out
schur_2x2_apply_NoBackSubst(w) ==
    IF ~(Work2 \cup {"z1", "Bty2", "Bt"} \subseteq DOMAIN w.self)
    THEN Raise(w, "AttributeError") ELSE
    Bind(Forward2(w), LAMBDA w5 :
    Bind(Assign(w5, [Bty2 |-> MatMultVec(w5.self.Bt, w5.self.y2)]), LAMBDA w6 :
    Bind(Assign(w6, [z1 |-> VecAXPY(VecAXPBY(w6.self.z1, One, Zero, w6.self.x1),
                                    Q(-1), w6.self.Bty2)]), LAMBDA w7 :
    SetValues2(w7))))

\* variant: z1 is not reset to x1 before B^T y2 is subtracted
schur_2x2_apply_NoReset(w) ==
    IF ~(Work2 \cup {"z1", "Bty2", "Bt"} \subseteq DOMAIN w.self)
    THEN Raise(w, "AttributeError") ELSE
    Bind(Forward2(w), LAMBDA w5 :
    Bind(Assign(w5, [Bty2 |-> MatMultVec(w5.self.Bt, w5.self.y2)]), LAMBDA w6 :
    Bind(Assign(w6, [z1 |-> VecAXPY(w6.self.z1, Q(-1), w6.self.Bty2)]),
         LAMBDA w7 :
    Bind(Solve(w7, 1, "z1", "y1"), LAMBDA w8 :
    SetValues2(w8)))))

schur_2x2_apply(w) ==
    IF ~(Work2 \cup {"z1", "Bty2", "Bt"} \subseteq DOMAIN w.self)
    THEN Raise(w, "AttributeError") ELSE
    Bind(Forward2(w), LAMBDA w5 :
    Bind(Assign(w5, [Bty2 |-> MatMultVec(w5.self.Bt, w5.self.y2)]), LAMBDA w6 :
    Bind(Assign(w6, [z1 |-> VecAXPY(VecAXPBY(w6.self.z1, One, Zero, w6.self.x1),
                                    Q(-1), w6.self.Bty2)]), LAMBDA w7 :
    Bind(Solve(w7, 1, "z1", "y1"), LAMBDA w8 :
    SetValues2(w8)))))

(***************************************************************************)
(* class simple_2x2(schur_2x2)                                             *)
(***************************************************************************)
\* variant: the correction negates the stored product Adinv Bt in place and adds
simple_2x2_apply_InPlace(w) ==
    IF ~(Work2 \cup {"Adinv_Bt", "Bty2"} \subseteq DOMAIN w.self)
    THEN Raise(w, "AttributeError") ELSE
    Bind(Forward2(w), LAMBDA w5 :
    Bind(Assign(w5, [Adinv_Bt |-> MatAXPY(w5.self.Adinv_Bt, Q(-2),
                                          w5.self.Adinv_Bt)]), LAMBDA w5a :
    Bind(Assign(w5a, [Bty2 |-> MatMultVec(w5a.self.Adinv_Bt, w5a.self.y2)]),
         LAMBDA w6 :
    Bind(Assign(w6, [y1 |-> VecAXPY(w6.self.y1, One, w6.self.Bty2)]),
         LAMBDA w7 :
    SetValues2(w7)))))

\* variant: the correction multiplies y2 by Bt instead of the product Adinv Bt
simple_2x2_apply_BtOnly(w) ==
    IF ~(Work2 \cup {"Adinv_Bt", "Bty2"} \subseteq DOMAIN w.self)
    THEN Raise(w, "AttributeError") ELSE
    Bind(Forward2(w), LAMBDA w5 :
    Bind(Assign(w5, [Bty2 |-> MatMultVec(w5.self.Bt, w5.self.y2)]),
         LAMBDA w6 :
    Bind(Assign(w6, [y1 |-> VecAXPY(w6.self.y1, Q(-1), w6.self.Bty2)]),
         LAMBDA w7 :
    SetValues2(w7))))

simple_2x2_apply(w) ==
    IF ~(Work2 \cup {"Adinv_Bt", "Bty2"} \subseteq DOMAIN w.self)
    THEN Raise(w, "AttributeError") ELSE
    Bind(Forward2(w), LAMBDA w5 :
    Bind(Assign(w5, [Bty2 |-> MatMultVec(w5.self.Adinv_Bt, w5.self.y2)]),
         LAMBDA w6 :
    Bind(Assign(w6, [y1 |-> VecAXPY(w6.self.y1, Q(-1), w6.self.Bty2)]),
         LAMBDA w7 :
    SetValues2(w7))))

(***************************************************************************)
(* class bgs_2x2                                                           *)
(***************************************************************************)
bgs_2x2_check_field_size(s) == s.nfields = 2

bgs_2x2_init_mat_vec(w) ==
    LET is == w.self.iset IN
    IF Len(is) < 2
    THEN Raise(Assign(w, [A |-> MatCreateSubMatrix(w.P, is[1], is[1])]), "IndexError")
    ELSE
    Bind(Assign(w, Blocks2(w.P, is)), LAMBDA w1 :
    Bind(Assign(w1, WorkVecs2(w1.self)), LAMBDA w2 :
    Return(Assign(w2, [Bty2 |-> ZeroVec(NRows(w2.self.Bt))]), <<"A", "C">>)))

\* variant: the lower-triangular operator is formed in the caller's matrix,
\* whose diagonal is shifted before the blocks are taken
bgs_2x2_setUp_InCaller(w) ==
    Bind([w EXCEPT !.P = MatAXPY(w.P, One, MatIdentity(NRows(w.P)))], LAMBDA w0 :
    Bind(Assign(w0, Blocks2(w0.P, w0.self.iset)), LAMBDA w1 :
    [w1 EXCEPT !.self = SetOperators(w1.self, <<"A", "C">>)]))

bgs_2x2_setUp(w) ==
    Bind(Assign(w, Blocks2(w.P, w.self.iset)), LAMBDA w1 :
    [w1 EXCEPT !.self = SetOperators(w1.self, <<"A", "C">>)])

\* variant: the second solve takes x2 itself, without the correction by B y1
bgs_2x2_apply_NoCorrection(w) ==
    IF ~(Work2 \subseteq DOMAIN w.self)
    THEN Raise(w, "AttributeError") ELSE
    Bind(GetSub2(w), LAMBDA w1 :
    Bind(Solve(w1, 1, "x1", "y1"), LAMBDA w2 :
    Bind(Solve(w2, 2, "x2", "y2"), LAMBDA w3 :
    SetValues2(w3))))

bgs_2x2_apply(w) ==
    IF ~(Work2 \subseteq DOMAIN w.self)
    THEN Raise(w, "AttributeError") ELSE
    Bind(Forward2(w), LAMBDA w5 : SetValues2(w5))

(***************************************************************************)
(* class jacobi_2x2                                                        *)
(***************************************************************************)
jacobi_2x2_check_field_size(s) == s.nfields = 2

\* only A and C are created here: no x1, x2, y1, y2
jacobi_2x2_init_mat_vec(w) ==
    LET is == w.self.iset IN
    IF Len(is) < 2
    THEN Raise(Assign(w, [A |-> MatCreateSubMatrix(w.P, is[1], is[1])]), "IndexError")
    ELSE Return(Assign(w, [A |-> MatCreateSubMatrix(w.P, is[1], is[1]),
                           C |-> MatCreateSubMatrix(w.P, is[2], is[2])]),
                <<"A", "C">>)

jacobi_2x2_setUp(w) ==
    LET is == w.self.iset IN
    Bind(Assign(w, [A |-> MatCreateSubMatrix(w.P, is[1], is[1]),
                    C |-> MatCreateSubMatrix(w.P, is[2], is[2])]), LAMBDA w1 :
    [w1 EXCEPT !.self = SetOperators(w1.self, <<"A", "C">>)])

\* the first statement reads self.x1
jacobi_2x2_apply(w) ==
    IF ~({"iset", "ksp_fields", "x1", "x2", "y1", "y2"} \subseteq DOMAIN w.self)
    THEN Raise(w, "AttributeError") ELSE
    Bind(GetSub2(w), LAMBDA w1 :
    Bind(Solve(w1, 1, "x1", "y1"), LAMBDA w2 :
    Bind(Solve(w2, 2, "x2", "y2"), LAMBDA w3 :
    SetValues2(w3))))

(***************************************************************************)
(* class schur_3x3                                                         *)
(***************************************************************************)
\* variant: the assertion copied from the 2-field schemes
schur_3x3_check_field_size_Copied(s) == s.nfields = 2

schur_3x3_check_field_size(s) == s.nfields = 3

\* the work vectors of the 3-field scheme
WorkVecs3(s) ==
    [By1 |-> ZeroVec(NRows(s.B)), Dy1 |-> ZeroVec(NRows(s.D)),
     DBty2 |-> ZeroVec(NRows(s.DBt)), Ey2 |-> ZeroVec(NRows(s.E)),
     Tmody3 |-> ZeroVec(NRows(s.Et)), Bty2 |-> ZeroVec(NRows(s.Bt)),
     Dty3 |-> ZeroVec(NRows(s.Dt)),
     x1 |-> ZeroVec(NRows(s.A)), x2 |-> ZeroVec(NRows(s.Smod)),
     x3 |-> ZeroVec(NRows(s.Wmod)),
     y1 |-> ZeroVec(NRows(s.A)), y2 |-> ZeroVec(NRows(s.Smod)),
     y3 |-> ZeroVec(NRows(s.Wmod)),
     z1 |-> ZeroVec(NRows(s.A)), z2 |-> ZeroVec(NRows(s.Smod)),
     z3 |-> ZeroVec(NRows(s.Wmod))]

schur_3x3_init_mat_vec(w) ==
    LET is == w.self.iset
        sc == w.self.schur_block_scaling
    IN
    IF Len(is) < 3
    THEN Raise(Assign(w, [A |-> MatCreateSubMatrix(w.P, is[1], is[1]),
                          Bt |-> MatCreateSubMatrix(w.P, is[1], is[2])]),
               "IndexError")
    ELSE
    Bind(Assign(w, Blocks3(w.P, is)), LAMBDA w1 :
    Bind(Assign(w1, [Adinv |-> MatIdentity(NRows(w1.self.A))]), LAMBDA w2 :
    IF Len(sc) < 1 THEN Raise(w2, "IndexError") ELSE
    IF sc[1].type \notin KnownScaling THEN Raise(w2, "ValueError") ELSE
    Bind(Assign(w2, [adinv_vec |-> InitScalingVec(sc[1].type, w2.self.A),
                     Smod |-> w2.self.C]), LAMBDA w3 :
    IF Len(sc) < 2 THEN Raise(w3, "IndexError") ELSE
    IF sc[2].type \notin KnownScaling THEN Raise(w3, "ValueError") ELSE
    Bind(Assign(w3, [smoddinv_vec |-> InitScalingVec(sc[2].type, w3.self.Smod),
                     Smoddinv |-> MatIdentity(NRows(w3.self.Smod)),
                     Tmod |-> w3.self.Et,
                     Wmod |-> w3.self.R,
                     Adinv_Bt |-> MatMatMult(w3.self.Adinv, w3.self.Bt),
                     Adinv_Dt |-> MatMatMult(w3.self.Adinv, w3.self.Dt)]),
         LAMBDA w4 :
    Bind(Assign(w4, [DBt |-> MatMatMult(w4.self.D, w4.self.Adinv_Bt),
                     B_Adinv_Bt |-> MatMatMult(w4.self.B, w4.self.Adinv_Bt),
                     B_Adinv_Dt |-> MatMatMult(w4.self.B, w4.self.Adinv_Dt),
                     D_Adinv_Dt |-> MatMatMult(w4.self.D, w4.self.Adinv_Dt)]),
         LAMBDA w5 :
    Bind(Assign(w5, [Smod |-> MatAXPY(w5.self.Smod, Q(-1), w5.self.B_Adinv_Bt),
                     Tmod |-> MatAXPY(w5.self.Tmod, Q(-1), w5.self.B_Adinv_Dt)]),
         LAMBDA w6 :
    Bind(Assign(w6, [Smoddinv_Tmod |-> MatMatMult(w6.self.Smoddinv, w6.self.Tmod)]),
         LAMBDA w7 :
    Bind(Assign(w7, [Bt_Smoddinv_Tmod |->
                        MatMatMult(w7.self.Bt, w7.self.Smoddinv_Tmod),
                     E_Smoddinv_Tmod |->
                        MatMatMult(w7.self.E, w7.self.Smoddinv_Tmod)]),
         LAMBDA w8 :
    Bind(Assign(w8, [Adinv_Bt_Smoddinv_Tmod |->
                        MatMatMult(w8.self.Adinv, w8.self.Bt_Smoddinv_Tmod)]),
         LAMBDA w9 :
    Bind(Assign(w9, [D_Adinv_Bt_Smoddinv_Tmod |->
                        MatMatMult(w9.self.D, w9.self.Adinv_Bt_Smoddinv_Tmod)]),
         LAMBDA w10 :
    Return(Assign(w10, WorkVecs3(w10.self)), <<"A", "Smod", "Wmod">>)))))))))))

\* variant: the second scaling vector is taken from C instead of Smod
schur_3x3_setUp_ScaleByC(w) ==
    LET sc == w.self.schur_block_scaling IN
    Bind(Assign(w, Blocks3(w.P, w.self.iset)), LAMBDA w1 :
    IF sc[1].type \notin KnownScaling THEN Raise(w1, "ValueError") ELSE
    Bind(Assign(w1, [adinv_vec |->
                        SetUpScalingVec(sc[1], w1.self.A, w1.self.adinv_vec)]),
         LAMBDA w2 :
    Bind(Assign(w2, [Adinv |-> MatSetDiagonal(w2.self.Adinv, w2.self.adinv_vec)]),
         LAMBDA w3 :
    Bind(Assign(w3, [Adinv_Bt |-> MatMatMult(w3.self.Adinv, w3.self.Bt),
                     Adinv_Dt |-> MatMatMult(w3.self.Adinv, w3.self.Dt)]),
         LAMBDA w4 :
    Bind(Assign(w4, [B_Adinv_Bt |-> MatMatMult(w4.self.B, w4.self.Adinv_Bt),
                     B_Adinv_Dt |-> MatMatMult(w4.self.B, w4.self.Adinv_Dt)]),
         LAMBDA w5 :
    Bind(Assign(w5, [Smod |-> MatAXPY(w5.self.C, Q(-1), w5.self.B_Adinv_Bt),
                     Tmod |-> MatAXPY(w5.self.Et, Q(-1), w5.self.B_Adinv_Dt)]),
         LAMBDA w6 :
    IF sc[2].type \notin KnownScaling THEN Raise(w6, "ValueError") ELSE
    Bind(Assign(w6, [smoddinv_vec |->
                        SetUpScalingVec(sc[2], w6.self.C, w6.self.smoddinv_vec)]),
         LAMBDA w7 :
    Bind(Assign(w7, [Smoddinv |->
                        MatSetDiagonal(w7.self.Smoddinv, w7.self.smoddinv_vec)]),
         LAMBDA w8 :
    Bind(Assign(w8, [Smoddinv_Tmod |-> MatMatMult(w8.self.Smoddinv, w8.self.Tmod)]),
         LAMBDA w9 :
    Bind(Assign(w9, [Bt_Smoddinv_Tmod |->
                        MatMatMult(w9.self.Bt, w9.self.Smoddinv_Tmod)]),
         LAMBDA w10 :
    Bind(Assign(w10, [Adinv_Bt_Smoddinv_Tmod |->
                        MatMatMult(w10.self.Adinv, w10.self.Bt_Smoddinv_Tmod)]),
         LAMBDA w11 :
    Bind(Assign(w11, [D_Adinv_Bt_Smoddinv_Tmod |->
                        MatMatMult(w11.self.D, w11.self.Adinv_Bt_Smoddinv_Tmod),
                      DBt |-> MatMatMult(w11.self.D, w11.self.Adinv_Bt),
                      E_Smoddinv_Tmod |->
                        MatMatMult(w11.self.E, w11.self.Smoddinv_Tmod),
                      D_Adinv_Dt |-> MatMatMult(w11.self.D, w11.self.Adinv_Dt)]),
         LAMBDA w12 :
    Bind(Assign(w12, [Wmod |->
                        MatAXPY(MatAXPY(MatAXPY(w12.self.R,
                                                Q(-1), w12.self.D_Adinv_Dt),
                                        Q(-1), w12.self.E_Smoddinv_Tmod),
                                One, w12.self.D_Adinv_Bt_Smoddinv_Tmod)]),
         LAMBDA w13 :
    Bind(SetOperators(w13.self, <<"A", "Smod", "Wmod">>), LAMBDA s14 :
    [w13 EXCEPT !.self = SetMatVec(s14)]))))))))))))))

\* variant: Tmod keeps the values of init_mat_vec
schur_3x3_setUp_StaleTmod(w) ==
    LET sc == w.self.schur_block_scaling IN
    Bind(Assign(w, Blocks3(w.P, w.self.iset)), LAMBDA w1 :
    IF sc[1].type \notin KnownScaling THEN Raise(w1, "ValueError") ELSE
    Bind(Assign(w1, [adinv_vec |->
                        SetUpScalingVec(sc[1], w1.self.A, w1.self.adinv_vec)]),
         LAMBDA w2 :
    Bind(Assign(w2, [Adinv |-> MatSetDiagonal(w2.self.Adinv, w2.self.adinv_vec)]),
         LAMBDA w3 :
    Bind(Assign(w3, [Adinv_Bt |-> MatMatMult(w3.self.Adinv, w3.self.Bt),
                     Adinv_Dt |-> MatMatMult(w3.self.Adinv, w3.self.Dt)]),
         LAMBDA w4 :
    Bind(Assign(w4, [B_Adinv_Bt |-> MatMatMult(w4.self.B, w4.self.Adinv_Bt),
                     B_Adinv_Dt |-> MatMatMult(w4.self.B, w4.self.Adinv_Dt)]),
         LAMBDA w5 :
    Bind(Assign(w5, [Smod |-> MatAXPY(w5.self.C, Q(-1), w5.self.B_Adinv_Bt)]),
         LAMBDA w6 :
    IF sc[2].type \notin KnownScaling THEN Raise(w6, "ValueError") ELSE
    Bind(Assign(w6, [smoddinv_vec |->
                        SetUpScalingVec(sc[2], w6.self.Smod, w6.self.smoddinv_vec)]),
         LAMBDA w7 :
    Bind(Assign(w7, [Smoddinv |->
                        MatSetDiagonal(w7.self.Smoddinv, w7.self.smoddinv_vec)]),
         LAMBDA w8 :
    Bind(Assign(w8, [Smoddinv_Tmod |-> MatMatMult(w8.self.Smoddinv, w8.self.Tmod)]),
         LAMBDA w9 :
    Bind(Assign(w9, [Bt_Smoddinv_Tmod |->
                        MatMatMult(w9.self.Bt, w9.self.Smoddinv_Tmod)]),
         LAMBDA w10 :
    Bind(Assign(w10, [Adinv_Bt_Smoddinv_Tmod |->
                        MatMatMult(w10.self.Adinv, w10.self.Bt_Smoddinv_Tmod)]),
         LAMBDA w11 :
    Bind(Assign(w11, [D_Adinv_Bt_Smoddinv_Tmod |->
                        MatMatMult(w11.self.D, w11.self.Adinv_Bt_Smoddinv_Tmod),
                      DBt |-> MatMatMult(w11.self.D, w11.self.Adinv_Bt),
                      E_Smoddinv_Tmod |->
                        MatMatMult(w11.self.E, w11.self.Smoddinv_Tmod),
                      D_Adinv_Dt |-> MatMatMult(w11.self.D, w11.self.Adinv_Dt)]),
         LAMBDA w12 :
    Bind(Assign(w12, [Wmod |->
                        MatAXPY(MatAXPY(MatAXPY(w12.self.R,
                                                Q(-1), w12.self.D_Adinv_Dt),
                                        Q(-1), w12.self.E_Smoddinv_Tmod),
                                One, w12.self.D_Adinv_Bt_Smoddinv_Tmod)]),
         LAMBDA w13 :
    Bind(SetOperators(w13.self, <<"A", "Smod", "Wmod">>), LAMBDA s14 :
    [w13 EXCEPT !.self = SetMatVec(s14)]))))))))))))))

schur_3x3_setUp(w) ==
    LET sc == w.self.schur_block_scaling IN
    Bind(Assign(w, Blocks3(w.P, w.self.iset)), LAMBDA w1 :
    IF sc[1].type \notin KnownScaling THEN Raise(w1, "ValueError") ELSE
    Bind(Assign(w1, [adinv_vec |->
                        SetUpScalingVec(sc[1], w1.self.A, w1.self.adinv_vec)]),
         LAMBDA w2 :
    Bind(Assign(w2, [Adinv |-> MatSetDiagonal(w2.self.Adinv, w2.self.adinv_vec)]),
         LAMBDA w3 :
    Bind(Assign(w3, [Adinv_Bt |-> MatMatMult(w3.self.Adinv, w3.self.Bt),
                     Adinv_Dt |-> MatMatMult(w3.self.Adinv, w3.self.Dt)]),
         LAMBDA w4 :
    Bind(Assign(w4, [B_Adinv_Bt |-> MatMatMult(w4.self.B, w4.self.Adinv_Bt),
                     B_Adinv_Dt |-> MatMatMult(w4.self.B, w4.self.Adinv_Dt)]),
         LAMBDA w5 :
    Bind(Assign(w5, [Smod |-> MatAXPY(w5.self.C, Q(-1), w5.self.B_Adinv_Bt),
                     Tmod |-> MatAXPY(w5.self.Et, Q(-1), w5.self.B_Adinv_Dt)]),
         LAMBDA w6 :
    IF sc[2].type \notin KnownScaling THEN Raise(w6, "ValueError") ELSE
    Bind(Assign(w6, [smoddinv_vec |->
                        SetUpScalingVec(sc[2], w6.self.Smod, w6.self.smoddinv_vec)]),
         LAMBDA w7 :
    Bind(Assign(w7, [Smoddinv |->
                        MatSetDiagonal(w7.self.Smoddinv, w7.self.smoddinv_vec)]),
         LAMBDA w8 :
    Bind(Assign(w8, [Smoddinv_Tmod |-> MatMatMult(w8.self.Smoddinv, w8.self.Tmod)]),
         LAMBDA w9 :
    Bind(Assign(w9, [Bt_Smoddinv_Tmod |->
                        MatMatMult(w9.self.Bt, w9.self.Smoddinv_Tmod)]),
         LAMBDA w10 :
    Bind(Assign(w10, [Adinv_Bt_Smoddinv_Tmod |->
                        MatMatMult(w10.self.Adinv, w10.self.Bt_Smoddinv_Tmod)]),
         LAMBDA w11 :
    Bind(Assign(w11, [D_Adinv_Bt_Smoddinv_Tmod |->
                        MatMatMult(w11.self.D, w11.self.Adinv_Bt_Smoddinv_Tmod),
                      DBt |-> MatMatMult(w11.self.D, w11.self.Adinv_Bt),
                      E_Smoddinv_Tmod |->
                        MatMatMult(w11.self.E, w11.self.Smoddinv_Tmod),
                      D_Adinv_Dt |-> MatMatMult(w11.self.D, w11.self.Adinv_Dt)]),
         LAMBDA w12 :
    Bind(Assign(w12, [Wmod |->
                        MatAXPY(MatAXPY(MatAXPY(w12.self.R,
                                                Q(-1), w12.self.D_Adinv_Dt),
                                        Q(-1), w12.self.E_Smoddinv_Tmod),
                                One, w12.self.D_Adinv_Bt_Smoddinv_Tmod)]),
         LAMBDA w13 :
    Bind(SetOperators(w13.self, <<"A", "Smod", "Wmod">>), LAMBDA s14 :
    [w13 EXCEPT !.self = SetMatVec(s14)]))))))))))))))

\* variant: (D Adinv Bt) y2 is subtracted from z3 instead of added
schur_3x3_apply_SignDBt(w) ==
    LET is == w.self.iset IN
    Bind(Assign(w, [x1 |-> VecGetSubVector(w.x, is[1]),
                    x2 |-> VecGetSubVector(w.x, is[2]),
                    x3 |-> VecGetSubVector(w.x, is[3])]), LAMBDA w1 :
    Bind(Solve(w1, 1, "x1", "y1"), LAMBDA w2 :
    Bind(Assign(w2, [By1 |-> MatMultVec(w2.self.B, w2.self.y1)]), LAMBDA w3 :
    Bind(Assign(w3, [z2 |-> VecAXPY(VecAXPBY(w3.self.z2, One, Zero, w3.self.x2),
                                    Q(-1), w3.self.By1)]), LAMBDA w4 :
    Bind(Solve(w4, 2, "z2", "y2"), LAMBDA w5 :
    Bind(Assign(w5, [Dy1 |-> MatMultVec(w5.self.D, w5.self.y1),
                     DBty2 |-> MatMultVec(w5.self.DBt, w5.self.y2),
                     Ey2 |-> MatMultVec(w5.self.E, w5.self.y2)]), LAMBDA w6 :
    Bind(Assign(w6, [z3 |-> VecAXPY(VecAXPY(VecAXPY(
                                VecAXPBY(w6.self.z3, One, Zero, w6.self.x3),
                                Q(-1), w6.self.Dy1),
                                Q(-1), w6.self.DBty2),
                                Q(-1), w6.self.Ey2)]), LAMBDA w7 :
    Bind(Solve(w7, 3, "z3", "y3"), LAMBDA w8 :
    Bind(Assign(w8, [Tmody3 |-> MatMultVec(w8.self.Tmod, w8.self.y3)]), LAMBDA w9 :
    Bind(Assign(w9, [z2 |-> VecAXPY(VecAXPY(
                                VecAXPBY(w9.self.z2, One, Zero, w9.self.x2),
                                Q(-1), w9.self.By1),
                                Q(-1), w9.self.Tmody3)]), LAMBDA w10 :
    Bind(Solve(w10, 2, "z2", "y2"), LAMBDA w11 :
    Bind(Assign(w11, [Bty2 |-> MatMultVec(w11.self.Bt, w11.self.y2),
                      Dty3 |-> MatMultVec(w11.self.Dt, w11.self.y3)]), LAMBDA w12 :
    Bind(Assign(w12, [z1 |-> VecAXPY(VecAXPY(
                                VecAXPBY(w12.self.z1, One, Zero, w12.self.x1),
                                Q(-1), w12.self.Bty2),
                                Q(-1), w12.self.Dty3)]), LAMBDA w13 :
    Bind(Solve(w13, 1, "z1", "y1"), LAMBDA w14 :
    [w14 EXCEPT
        !.x = VecSetValues(VecSetValues(VecSetValues(w14.x, is[1], w14.self.x1),
                                        is[2], w14.self.x2), is[3], w14.self.x3),
        !.y = VecSetValues(VecSetValues(VecSetValues(w14.y, is[1], w14.self.y1),
                                        is[2], w14.self.y2), is[3], w14.self.y3)]
    ))))))))))))))

\* variant: Dt y3 is not subtracted from z1 before the last solve
schur_3x3_apply_NoDt(w) ==
    LET is == w.self.iset IN
    Bind(Assign(w, [x1 |-> VecGetSubVector(w.x, is[1]),
                    x2 |-> VecGetSubVector(w.x, is[2]),
                    x3 |-> VecGetSubVector(w.x, is[3])]), LAMBDA w1 :
    Bind(Solve(w1, 1, "x1", "y1"), LAMBDA w2 :
    Bind(Assign(w2, [By1 |-> MatMultVec(w2.self.B, w2.self.y1)]), LAMBDA w3 :
    Bind(Assign(w3, [z2 |-> VecAXPY(VecAXPBY(w3.self.z2, One, Zero, w3.self.x2),
                                    Q(-1), w3.self.By1)]), LAMBDA w4 :
    Bind(Solve(w4, 2, "z2", "y2"), LAMBDA w5 :
    Bind(Assign(w5, [Dy1 |-> MatMultVec(w5.self.D, w5.self.y1),
                     DBty2 |-> MatMultVec(w5.self.DBt, w5.self.y2),
                     Ey2 |-> MatMultVec(w5.self.E, w5.self.y2)]), LAMBDA w6 :
    Bind(Assign(w6, [z3 |-> VecAXPY(VecAXPY(VecAXPY(
                                VecAXPBY(w6.self.z3, One, Zero, w6.self.x3),
                                Q(-1), w6.self.Dy1),
                                One, w6.self.DBty2),
                                Q(-1), w6.self.Ey2)]), LAMBDA w7 :
    Bind(Solve(w7, 3, "z3", "y3"), LAMBDA w8 :
    Bind(Assign(w8, [Tmody3 |-> MatMultVec(w8.self.Tmod, w8.self.y3)]), LAMBDA w9 :
    Bind(Assign(w9, [z2 |-> VecAXPY(VecAXPY(
                                VecAXPBY(w9.self.z2, One, Zero, w9.self.x2),
                                Q(-1), w9.self.By1),
                                Q(-1), w9.self.Tmody3)]), LAMBDA w10 :
    Bind(Solve(w10, 2, "z2", "y2"), LAMBDA w11 :
    Bind(Assign(w11, [Bty2 |-> MatMultVec(w11.self.Bt, w11.self.y2),
                      Dty3 |-> MatMultVec(w11.self.Dt, w11.self.y3)]), LAMBDA w12 :
    Bind(Assign(w12, [z1 |-> VecAXPY(
                                VecAXPBY(w12.self.z1, One, Zero, w12.self.x1),
                                Q(-1), w12.self.Bty2)]), LAMBDA w13 :
    Bind(Solve(w13, 1, "z1", "y1"), LAMBDA w14 :
    [w14 EXCEPT
        !.x = VecSetValues(VecSetValues(VecSetValues(w14.x, is[1], w14.self.x1),
                                        is[2], w14.self.x2), is[3], w14.self.x3),
        !.y = VecSetValues(VecSetValues(VecSetValues(w14.y, is[1], w14.self.y1),
                                        is[2], w14.self.y2), is[3], w14.self.y3)]
    ))))))))))))))

schur_3x3_apply(w) ==
    LET is == w.self.iset IN
    Bind(Assign(w, [x1 |-> VecGetSubVector(w.x, is[1]),
                    x2 |-> VecGetSubVector(w.x, is[2]),
                    x3 |-> VecGetSubVector(w.x, is[3])]), LAMBDA w1 :
    Bind(Solve(w1, 1, "x1", "y1"), LAMBDA w2 :
    Bind(Assign(w2, [By1 |-> MatMultVec(w2.self.B, w2.self.y1)]), LAMBDA w3 :
    Bind(Assign(w3, [z2 |-> VecAXPY(VecAXPBY(w3.self.z2, One, Zero, w3.self.x2),
                                    Q(-1), w3.self.By1)]), LAMBDA w4 :
    Bind(Solve(w4, 2, "z2", "y2"), LAMBDA w5 :
    Bind(Assign(w5, [Dy1 |-> MatMultVec(w5.self.D, w5.self.y1),
                     DBty2 |-> MatMultVec(w5.self.DBt, w5.self.y2),
                     Ey2 |-> MatMultVec(w5.self.E, w5.self.y2)]), LAMBDA w6 :
    Bind(Assign(w6, [z3 |-> VecAXPY(VecAXPY(VecAXPY(
                                VecAXPBY(w6.self.z3, One, Zero, w6.self.x3),
                                Q(-1), w6.self.Dy1),
                                One, w6.self.DBty2),
                                Q(-1), w6.self.Ey2)]), LAMBDA w7 :
    Bind(Solve(w7, 3, "z3", "y3"), LAMBDA w8 :
    Bind(Assign(w8, [Tmody3 |-> MatMultVec(w8.self.Tmod, w8.self.y3)]), LAMBDA w9 :
    Bind(Assign(w9, [z2 |-> VecAXPY(VecAXPY(
                                VecAXPBY(w9.self.z2, One, Zero, w9.self.x2),
                                Q(-1), w9.self.By1),
                                Q(-1), w9.self.Tmody3)]), LAMBDA w10 :
    Bind(Solve(w10, 2, "z2", "y2"), LAMBDA w11 :
    Bind(Assign(w11, [Bty2 |-> MatMultVec(w11.self.Bt, w11.self.y2),
                      Dty3 |-> MatMultVec(w11.self.Dt, w11.self.y3)]), LAMBDA w12 :
    Bind(Assign(w12, [z1 |-> VecAXPY(VecAXPY(
                                VecAXPBY(w12.self.z1, One, Zero, w12.self.x1),
                                Q(-1), w12.self.Bty2),
                                Q(-1), w12.self.Dty3)]), LAMBDA w13 :
    Bind(Solve(w13, 1, "z1", "y1"), LAMBDA w14 :
    [w14 EXCEPT
        !.x = VecSetValues(VecSetValues(VecSetValues(w14.x, is[1], w14.self.x1),
                                        is[2], w14.self.x2), is[3], w14.self.x3),
        !.y = VecSetValues(VecSetValues(VecSetValues(w14.y, is[1], w14.self.y1),
                                        is[2], w14.self.y2), is[3], w14.self.y3)]
    ))))))))))))))

(***************************************************************************)
(* class schur_bgssym_4x4(schur_3x3)                                       *)
(***************************************************************************)
schur_bgssym_4x4_check_field_size(s) == s.nfields = 4

RECURSIVE SortedSeq(_)
SortedSeq(S) ==
    IF S = {} THEN << >>
    ELSE LET m == CHOOSE a \in S : \A b \in S : a <= b
         IN  <<m>> \o SortedSeq(S \ {m})

\* IS.expand (union without duplicates) twice, then IS.sort
Expand012(is) ==
    SortedSeq(UNION {{is[f][i] : i \in 1..Len(is[f])} : f \in 1..3})

schur_bgssym_4x4_init_mat_vec(w) ==
    Bind(schur_3x3_init_mat_vec(w), LAMBDA w1 :
    IF w1.err # "none" THEN w1 ELSE
    IF Len(w1.self.iset) < 4 THEN Raise(w1, "IndexError") ELSE
    Bind(Assign(w1, [G |-> MatCreateSubMatrix(w1.P, w1.self.iset[4],
                                              w1.self.iset[4]),
                     iset_012 |-> Expand012(w1.self.iset)]), LAMBDA w2 :
    Bind(Assign(w2, [Ft |-> MatCreateSubMatrix(w2.P, w2.self.iset_012,
                                               w2.self.iset[4]),
                     F |-> MatCreateSubMatrix(w2.P, w2.self.iset[4],
                                              w2.self.iset_012)]), LAMBDA w3 :
    Return(Assign(w3, [x4 |-> ZeroVec(NRows(w3.self.G)),
                       y4 |-> ZeroVec(NRows(w3.self.G)),
                       z4 |-> ZeroVec(NRows(w3.self.G)),
                       x123 |-> ZeroVec(NRows(w3.self.Ft)),
                       y123 |-> ZeroVec(NRows(w3.self.Ft)),
                       z123 |-> ZeroVec(NRows(w3.self.Ft)),
                       Fty4 |-> ZeroVec(NRows(w3.self.Ft)),
                       Fy123 |-> ZeroVec(NRows(w3.self.F)),
                       xtmp |-> ZeroVec(NRows(w3.P))]),
           <<w1.ret[1], w1.ret[2], w1.ret[3], "G">>))))

\* ksp_fields[3].setOperators(self.G)
SetOperatorG(s) == [s EXCEPT !.ksp_fields[4].op = "G"]

\* variant: G keeps the values extracted by init_mat_vec
schur_bgssym_4x4_setUp_KeepG(w) ==
    Bind(schur_3x3_setUp(w), LAMBDA w1 :
    IF w1.err # "none" THEN w1 ELSE
    Bind(Assign(w1, [Ft |-> MatCreateSubMatrix(w1.P, w1.self.iset_012,
                                               w1.self.iset[4]),
                     F |-> MatCreateSubMatrix(w1.P, w1.self.iset[4],
                                              w1.self.iset_012)]), LAMBDA w2 :
    [w2 EXCEPT !.self = SetOperatorG(w2.self)]))

schur_bgssym_4x4_setUp(w) ==
    Bind(schur_3x3_setUp(w), LAMBDA w1 :
    IF w1.err # "none" THEN w1 ELSE
    Bind(Assign(w1, [G |-> MatCreateSubMatrix(w1.P, w1.self.iset[4],
                                              w1.self.iset[4]),
                     Ft |-> MatCreateSubMatrix(w1.P, w1.self.iset_012,
                                               w1.self.iset[4]),
                     F |-> MatCreateSubMatrix(w1.P, w1.self.iset[4],
                                              w1.self.iset_012)]), LAMBDA w2 :
    [w2 EXCEPT !.self = SetOperatorG(w2.self)]))

\* variant: z123 is written into the caller's x, which is handed to the
\* 3-field apply
Forward4_InPlace(w) ==
    Bind(Assign(w, [x4 |-> VecGetSubVector(w.x, w.self.iset[4]),
                    x123 |-> VecGetSubVector(w.x, w.self.iset_012)]), LAMBDA w1 :
    Bind(Solve(w1, 4, "x4", "y4"), LAMBDA w2 :
    Bind(Assign(w2, [Fty4 |-> MatMultVec(w2.self.Ft, w2.self.y4)]), LAMBDA w3 :
    Bind(Assign(w3, [z123 |-> VecAXPY(VecAXPBY(w3.self.z123, One, Zero,
                                               w3.self.x123),
                                      Q(-1), w3.self.Fty4)]), LAMBDA w4 :
    Bind([w4 EXCEPT !.x = VecSetValues(w4.x, w4.self.iset_012, w4.self.z123)],
         LAMBDA w6 :
    schur_3x3_apply(w6))))))

\* the first half of both 4-field applies: y4 = G^-1 x4, z123 = x123 - Ft y4,
\* xtmp = z123 on fields 0-2, then the 3-field apply on xtmp
Forward4(w) ==
    Bind(Assign(w, [x4 |-> VecGetSubVector(w.x, w.self.iset[4]),
                    x123 |-> VecGetSubVector(w.x, w.self.iset_012)]), LAMBDA w1 :
    Bind(Solve(w1, 4, "x4", "y4"), LAMBDA w2 :
    Bind(Assign(w2, [Fty4 |-> MatMultVec(w2.self.Ft, w2.self.y4)]), LAMBDA w3 :
    Bind(Assign(w3, [z123 |-> VecAXPY(VecAXPBY(w3.self.z123, One, Zero,
                                               w3.self.x123),
                                      Q(-1), w3.self.Fty4)]), LAMBDA w4 :
    Bind(Assign(w4, [xtmp |-> VecSetValues(w4.self.xtmp, w4.self.iset_012,
                                           w4.self.z123)]), LAMBDA w5 :
    Bind([w5 EXCEPT !.x = w5.self.xtmp], LAMBDA w6 :
    Bind(schur_3x3_apply(w6), LAMBDA w7 :
    \* xtmp is what the 3-field apply saw as x; the caller's x is w5.x
    [Assign(w7, [xtmp |-> w7.x]) EXCEPT !.x = w5.x])))))))

\* x.restoreSubVector of x123 and x4, then y.setValues(iset[3], y4)
SetValues4(w) ==
    [w EXCEPT !.x = VecSetValues(VecSetValues(w.x, w.self.iset_012, w.self.x123),
                                 w.self.iset[4], w.self.x4),
              !.y = VecSetValues(w.y, w.self.iset[4], w.self.y4)]

\* variant: the second G solve is fed back into fields 0 to 2, Ft y4 being
\* subtracted from y123 before it is written to y
schur_bgssym_4x4_apply_FeedBack(w) ==
    Bind(Forward4(w), LAMBDA w8 :
    Bind(Assign(w8, [y123 |-> VecGetSubVector(w8.y, w8.self.iset_012)]),
         LAMBDA w9 :
    Bind(Assign(w9, [Fy123 |-> MatMultVec(w9.self.F, w9.self.y123)]), LAMBDA w10 :
    Bind(Assign(w10, [z4 |-> VecAXPY(VecAXPBY(w10.self.z4, One, Zero, w10.self.x4),
                                     Q(-1), w10.self.Fy123)]), LAMBDA w11 :
    Bind(Solve(w11, 4, "z4", "y4"), LAMBDA w12 :
    Bind(Assign(w12, [y123 |-> VecAXPY(w12.self.y123, Q(-1),
                                       MatMultVec(w12.self.Ft, w12.self.y4))]),
         LAMBDA w12a :
    Bind([w12a EXCEPT !.y = VecSetValues(w12a.y, w12a.self.iset_012,
                                         w12a.self.y123)],
         LAMBDA w13 :
    SetValues4(w13))))))))

\* variant: y123 is not read back from y after the 3-field apply
schur_bgssym_4x4_apply_StaleY123(w) ==
    Bind(Forward4(w), LAMBDA w8 :
    Bind(w8, LAMBDA w9 :
    Bind(Assign(w9, [Fy123 |-> MatMultVec(w9.self.F, w9.self.y123)]), LAMBDA w10 :
    Bind(Assign(w10, [z4 |-> VecAXPY(VecAXPBY(w10.self.z4, One, Zero, w10.self.x4),
                                     Q(-1), w10.self.Fy123)]), LAMBDA w11 :
    Bind(Solve(w11, 4, "z4", "y4"), LAMBDA w12 :
    Bind([w12 EXCEPT !.y = VecSetValues(w12.y, w12.self.iset_012, w12.self.y123)],
         LAMBDA w13 :
    SetValues4(w13)))))))

schur_bgssym_4x4_apply(w) ==
    Bind(Forward4(w), LAMBDA w8 :
    Bind(Assign(w8, [y123 |-> VecGetSubVector(w8.y, w8.self.iset_012)]),
         LAMBDA w9 :
    Bind(Assign(w9, [Fy123 |-> MatMultVec(w9.self.F, w9.self.y123)]), LAMBDA w10 :
    Bind(Assign(w10, [z4 |-> VecAXPY(VecAXPBY(w10.self.z4, One, Zero, w10.self.x4),
                                     Q(-1), w10.self.Fy123)]), LAMBDA w11 :
    Bind(Solve(w11, 4, "z4", "y4"), LAMBDA w12 :
    Bind([w12 EXCEPT !.y = VecSetValues(w12.y, w12.self.iset_012, w12.self.y123)],
         LAMBDA w13 :
    SetValues4(w13)))))))

(***************************************************************************)
(* class schur_bgs_4x4(schur_bgssym_4x4)                                   *)
(***************************************************************************)
schur_bgs_4x4_setUp(w) ==
    Bind(schur_bgssym_4x4_setUp(w), LAMBDA w1 :
    IF w1.err # "none" THEN w1 ELSE
    Bind(Assign(w1, [G |-> MatCreateSubMatrix(w1.P, w1.self.iset[4],
                                              w1.self.iset[4]),
                     Ft |-> MatCreateSubMatrix(w1.P, w1.self.iset_012,
                                               w1.self.iset[4])]), LAMBDA w2 :
    [w2 EXCEPT !.self = SetOperatorG(w2.self)]))

\* variant: the apply inherited from schur_bgssym_4x4, with its second G solve
schur_bgs_4x4_apply_Symmetric(w) == schur_bgssym_4x4_apply(w)

schur_bgs_4x4_apply(w) ==
    Bind(Forward4(w), LAMBDA w8 : SetValues4(w8))

(* Method resolution over the class hierarchy.                             *)
(***************************************************************************)
Schemes == {"schur_2x2", "simple_2x2", "schur_3x3", "schur_bgssym_4x4",
            "schur_bgs_4x4", "bgs_2x2", "jacobi_2x2"}

check_field_size(cls, s) ==
    CASE cls \in {"schur_2x2", "simple_2x2"} -> schur_2x2_check_field_size(s)
      [] cls = "schur_3x3" -> schur_3x3_check_field_size(s)
      [] cls \in {"schur_bgssym_4x4", "schur_bgs_4x4"} ->
             schur_bgssym_4x4_check_field_size(s)
      [] cls = "bgs_2x2" -> bgs_2x2_check_field_size(s)
      [] cls = "jacobi_2x2" -> jacobi_2x2_check_field_size(s)

init_mat_vec(cls, w) ==
    CASE cls \in {"schur_2x2", "simple_2x2"} -> schur_2x2_init_mat_vec(w)
      [] cls = "schur_3x3" -> schur_3x3_init_mat_vec(w)
      [] cls \in {"schur_bgssym_4x4", "schur_bgs_4x4"} ->
             schur_bgssym_4x4_init_mat_vec(w)
      [] cls = "bgs_2x2" -> bgs_2x2_init_mat_vec(w)
      [] cls = "jacobi_2x2" -> jacobi_2x2_init_mat_vec(w)

setUp(cls, w) ==
    CASE cls \in {"schur_2x2", "simple_2x2"} -> schur_2x2_setUp(w)
      [] cls = "schur_3x3" -> schur_3x3_setUp(w)
      [] cls = "schur_bgssym_4x4" -> schur_bgssym_4x4_setUp(w)
      [] cls = "schur_bgs_4x4" -> schur_bgs_4x4_setUp(w)
      [] cls = "bgs_2x2" -> bgs_2x2_setUp(w)
      [] cls = "jacobi_2x2" -> jacobi_2x2_setUp(w)

apply(cls, w) ==
    CASE cls = "schur_2x2" -> schur_2x2_apply(w)
      [] cls = "simple_2x2" -> simple_2x2_apply(w)
      [] cls = "schur_3x3" -> schur_3x3_apply(w)
      [] cls = "schur_bgssym_4x4" -> schur_bgssym_4x4_apply(w)
      [] cls = "schur_bgs_4x4" -> schur_bgs_4x4_apply(w)
      [] cls = "bgs_2x2" -> bgs_2x2_apply(w)
      [] cls = "jacobi_2x2" -> jacobi_2x2_apply(w)

(***************************************************************************)
(* block_precond.create                                                    *)
(***************************************************************************)
(***************************************************************************)
(* classes stat_iter_fixed, stat_iter_fixed_scr: a constructor returns the  *)
(* object built so far and the exception it raised, "none" if it returned. *)
(***************************************************************************)
stat_iter_fixed_init(niter) ==
    [obj |-> [class |-> "stat_iter_fixed", niter |-> niter],
     err |-> "RuntimeError"]

\* variant: the constructor returns instead of raising
stat_iter_fixed_scr_init_Enabled(niter, ksp_sub) ==
    [obj |-> [class |-> "stat_iter_fixed_scr", niter |-> niter,
              ksp_sub |-> ksp_sub],
     err |-> "none"]

stat_iter_fixed_scr_init(niter, ksp_sub) ==
    [obj |-> [class |-> "stat_iter_fixed_scr", niter |-> niter,
              ksp_sub |-> ksp_sub],
     err |-> "RuntimeError"]

\* variant: a direct field takes its KSP type from the 'solve' option
FieldOptions_DirectHonoursSolve(pf, ksp, ksp0) ==
    IF pf.prec = "amg" THEN
        LET solvetype == GetOr(pf, "solve", "preonly")
            k1 == [ksp EXCEPT !.type = solvetype]
            k2 == IF solvetype \in {"gmres", "fgmres"}
                  THEN [k1 EXCEPT !.tol = [max_it |-> GetOr(pf, "maxiter", "1000"),
                                           rtol |-> GetOr(pf, "tolrel", "1e-5"),
                                           atol |-> GetOr(pf, "tolabs", "1e-50")]]
                  ELSE k1
            amgtype == GetOr(pf, "amgtype", "hypre")
            k3 == [k2 EXCEPT !.pc = amgtype,
                             !.hypre = IF amgtype = "hypre" THEN "boomeramg"
                                       ELSE k2.hypre]
            niter == GetOr(pf, "stat_iter", 1)
        IN  IF solvetype = "python"
            THEN IF ~HasAttr(pf, "py_solver")
                 THEN [ksp |-> k3, py |-> "None", err |-> "KeyError"]
                 ELSE IF pf.py_solver \in {"stat_iter_fixed", "stat_iter_fixed_scr"}
                 THEN Bind(IF pf.py_solver = "stat_iter_fixed"
                           THEN stat_iter_fixed_init(niter)
                           ELSE stat_iter_fixed_scr_init(niter, ksp0.id),
                           LAMBDA c :
                      \* the assignment to ksp_py_solver[n] and
                      \* setPythonContext follow a constructor that returned
                      IF c.err # "none"
                      THEN [ksp |-> k3, py |-> "None", err |-> c.err]
                      ELSE [ksp |-> [k3 EXCEPT !.py = c.obj.class],
                            py |-> c.obj, err |-> "none"])
                 ELSE [ksp |-> k3, py |-> "None", err |-> "ValueError"]
            ELSE [ksp |-> k3, py |-> "None", err |-> "none"]
    ELSE IF pf.prec = "direct" THEN
        [ksp |-> [ksp EXCEPT !.type = GetOr(pf, "solve", "preonly"), !.pc = "lu"],
         py |-> "None", err |-> "none"]
    ELSE [ksp |-> ksp, py |-> "None", err |-> "ValueError"]

\* the options of field n (second loop of create): the configured KSP, the
\* Python solver stored in ksp_py_solver[n] ("None" if the slot is not
\* assigned) and the exception raised; ksp0 is ksp_fields[0]
FieldOptions(pf, ksp, ksp0) ==
    IF pf.prec = "amg" THEN
        LET solvetype == GetOr(pf, "solve", "preonly")
            k1 == [ksp EXCEPT !.type = solvetype]
            k2 == IF solvetype \in {"gmres", "fgmres"}
                  THEN [k1 EXCEPT !.tol = [max_it |-> GetOr(pf, "maxiter", "1000"),
                                           rtol |-> GetOr(pf, "tolrel", "1e-5"),
                                           atol |-> GetOr(pf, "tolabs", "1e-50")]]
                  ELSE k1
            amgtype == GetOr(pf, "amgtype", "hypre")
            k3 == [k2 EXCEPT !.pc = amgtype,
                             !.hypre = IF amgtype = "hypre" THEN "boomeramg"
                                       ELSE k2.hypre]
            niter == GetOr(pf, "stat_iter", 1)
        IN  IF solvetype = "python"
            THEN IF ~HasAttr(pf, "py_solver")
                 THEN [ksp |-> k3, py |-> "None", err |-> "KeyError"]
                 ELSE IF pf.py_solver \in {"stat_iter_fixed", "stat_iter_fixed_scr"}
                 THEN Bind(IF pf.py_solver = "stat_iter_fixed"
                           THEN stat_iter_fixed_init(niter)
                           ELSE stat_iter_fixed_scr_init(niter, ksp0.id),
                           LAMBDA c :
                      \* the assignment to ksp_py_solver[n] and
                      \* setPythonContext follow a constructor that returned
                      IF c.err # "none"
                      THEN [ksp |-> k3, py |-> "None", err |-> c.err]
                      ELSE [ksp |-> [k3 EXCEPT !.py = c.obj.class],
                            py |-> c.obj, err |-> "none"])
                 ELSE [ksp |-> k3, py |-> "None", err |-> "ValueError"]
            ELSE [ksp |-> k3, py |-> "None", err |-> "none"]
    ELSE IF pf.prec = "direct" THEN
        [ksp |-> [ksp EXCEPT !.type = "preonly", !.pc = "lu"],
         py |-> "None", err |-> "none"]
    ELSE [ksp |-> ksp, py |-> "None", err |-> "ValueError"]

\* variant: setOperators is called before the options of the field are read
RECURSIVE CreateFields_BindFirst(_, _, _)
CreateFields_BindFirst(w, operator_mats, n) ==
    IF n > w.self.nfields THEN w ELSE
    IF n > Len(operator_mats) THEN Raise(w, "IndexError") ELSE
    Bind([w EXCEPT !.self.ksp_fields[n].op = operator_mats[n]], LAMBDA w1 :
    Bind(FieldOptions(w1.self.precond_fields[n], w1.self.ksp_fields[n],
                      w1.self.ksp_fields[1]), LAMBDA r :
    Bind([w1 EXCEPT !.self.ksp_fields[n] = r.ksp,
                    !.self.ksp_py_solver[n] = r.py], LAMBDA w2 :
    IF r.err # "none" THEN Raise(w2, r.err)
    ELSE CreateFields_BindFirst(w2, operator_mats, n + 1))))

RECURSIVE CreateFields(_, _, _)
CreateFields(w, operator_mats, n) ==
    IF n > w.self.nfields THEN w ELSE
    Bind(FieldOptions(w.self.precond_fields[n], w.self.ksp_fields[n],
                      w.self.ksp_fields[1]), LAMBDA r :
    Bind([w EXCEPT !.self.ksp_fields[n] = r.ksp,
                   !.self.ksp_py_solver[n] = r.py], LAMBDA w1 :
    IF r.err # "none" THEN Raise(w1, r.err)
    ELSE IF n > Len(operator_mats) THEN Raise(w1, "IndexError")
    ELSE Bind([w1 EXCEPT !.self.ksp_fields[n].op = operator_mats[n]], LAMBDA w2 :
         CreateFields(w2, operator_mats, n + 1))))

create(cls, w) ==
    Bind(Assign(w, [tpy |-> "None"]), LAMBDA w0 :
    IF ~check_field_size(cls, w0.self) THEN Raise(w0, "AssertionError") ELSE
    Bind(init_mat_vec(cls, w0), LAMBDA w1 :
    IF w1.err # "none" THEN w1 ELSE
    Bind(Assign(w1, [ksp_fields |->
                        [n \in 1..w1.self.nfields |-> NewKSP(w1.nksp + n)],
                     ksp_py_solver |-> [n \in 1..w1.self.nfields |-> "None"]]),
         LAMBDA w2 :
    Bind([w2 EXCEPT !.nksp = w1.nksp + w1.self.nfields], LAMBDA w3 :
    Return(CreateFields(w3, w1.ret, 1), << >>)))))

(***************************************************************************)
(* The caller's side: field partition, configuration, assembled operators  *)
(* and right-hand sides.                                                   *)
(***************************************************************************)
\* the index sets of an n-field partition: fields 0 and 1 have two degrees of
\* freedom, fields 2 and 3 one; field 2 is numbered between fields 0 and 1
Layout(n) ==
    IF n = 2 THEN <<<<1, 2>>, <<3, 4>>>>
    ELSE IF n = 3 THEN <<<<1, 2>>, <<4, 5>>, <<3>>>>
    ELSE <<<<1, 2>>, <<4, 5>>, <<3>>, <<6>>>>

NDofs(n) == IF n = 2 THEN 4 ELSE IF n = 3 THEN 5 ELSE 6

\* the coupling switch of the k-th assembled operator: operators 0 and 1 have
\* diagonal blocks on fields 0 and 1, the later ones are coupled
Off(k) == IF k <= 1 THEN 0 ELSE 1

\* the switch of the far couplings: operator 0 has a third field decoupled
\* from fields 0 and 1 (Dt, Et, D, E zero) and a zero block F
Far(k) == IF k = 0 THEN 0 ELSE 1

\* block (i, j) of the k-th assembled operator; k = 1 has A = 4 I, C = 2 I,
\* Bt = B = I on its first two fields; k = 0 has A = 4 I, C = diag(-2, -1)
Block(i, j, k) ==
    CASE i = 1 /\ j = 1 -> <<<<4, -6 * Off(k)>>, <<0, 4>>>>
      [] i = 1 /\ j = 2 -> <<<<1, Off(k)>>, <<0, 1>>>>
      [] i = 1 /\ j = 3 -> <<<<Far(k)>>, <<Off(k)>>>>
      [] i = 1 /\ j = 4 -> <<<<0>>, <<1>>>>
      [] i = 2 /\ j = 1 -> <<<<1, 0>>, <<0, 1 + Off(k)>>>>
      [] i = 2 /\ j = 2 -> <<<<4 * k - 2, Off(k)>>, <<0, 3 * k - 1>>>>
      [] i = 2 /\ j = 3 -> <<<<0>>, <<Far(k)>>>>
      [] i = 2 /\ j = 4 -> <<<<1>>, <<0>>>>
      [] i = 3 /\ j = 1 -> <<<<Far(k), 0>>>>
      [] i = 3 /\ j = 2 -> <<<<0, Far(k)>>>>
      [] i = 3 /\ j = 3 -> <<<<k + 1>>>>
      [] i = 3 /\ j = 4 -> <<<<1>>>>
      [] i = 4 /\ j = 1 -> <<<<Far(k), 0>>>>
      [] i = 4 /\ j = 2 -> <<<<0, Far(k)>>>>
      [] i = 4 /\ j = 3 -> <<<<Far(k)>>>>
      [] i = 4 /\ j = 4 -> <<<<k + 1>>>>

\* the field and the local index of degree of freedom r
FieldOf(lay, r) == CHOOSE f \in 1..Len(lay) : \E a \in 1..Len(lay[f]) : lay[f][a] = r
LocalOf(lay, r) == CHOOSE a \in 1..Len(lay[FieldOf(lay, r)]) : lay[FieldOf(lay, r)][a] = r

\* the assembled global operator over an n-field partition
Operator(k, n) ==
    LET lay == Layout(n) IN
    [r \in 1..NDofs(n) |->
        [c \in 1..NDofs(n) |->
            Q(Block(FieldOf(lay, r), FieldOf(lay, c), k)
                   [LocalOf(lay, r)][LocalOf(lay, c)])]]

Operators(n) == {Operator(0, n), Operator(1, n), Operator(MaxOperator, n)}

\* right-hand sides: the first unit vector and a vector without zero field part
RhsSet(n) == {[i \in 1..n |-> IF i = 1 THEN One ELSE Zero],
              [i \in 1..n |-> Q(2 * i - 5)]}

\* the content of the caller's y before the first apply
Stale(n) == [i \in 1..n |-> Q(7)]

Direct == [prec |-> "direct"]
Amg == [prec |-> "amg"]
AmgGmres == [prec |-> "amg", solve |-> "gmres"]
Ilu == [prec |-> "ilu"]
\* a direct field with a 'solve' option, an iterative AMG field with its own
\* stopping criteria
DirectGmres == [prec |-> "direct", solve |-> "gmres"]
AmgFgmresTol == [prec |-> "amg", solve |-> "fgmres", maxiter |-> "50",
                 tolrel |-> "1e-8"]
\* a Python solver selected for the inner solve, by name or without a name
AmgPython(name) == [prec |-> "amg", solve |-> "python", py_solver |-> name]
AmgPythonUnnamed == [prec |-> "amg", solve |-> "python", stat_iter |-> 2]
\* a direct field that carries a 'py_solver' entry, which create never reads
DirectNamed == [prec |-> "direct", py_solver |-> "stat_iter_fixed"]

\* all fields direct, but at most one deviating field
FieldConfigs(nf, kinds) ==
    {[n \in 1..nf |-> IF n = d THEN k ELSE Direct] : d \in 0..nf, k \in kinds}

ScalingTypes == {"diag", "rowsum", "none", "lumped"}
ScalingVals == {One, Q(MaxVal)}
OtherVal(v) == IF v = One THEN Q(MaxVal) ELSE One
NextType(t) == IF t = "diag" THEN "rowsum" ELSE IF t = "rowsum" THEN "none" ELSE "diag"
KnownEntries == [type : KnownScaling, val : ScalingVals]
AllEntries == [type : ScalingTypes, val : {One}]

ScalingList(items) == [schur_block_scaling |-> [kind |-> "list", items |-> items]]
ScalingDict(item) == [schur_block_scaling |-> [kind |-> "dict", item |-> item]]
NoParams == << >>

Required(cls) ==
    IF cls = "schur_3x3" THEN 3
    ELSE IF cls \in {"schur_bgssym_4x4", "schur_bgs_4x4"} THEN 4
    ELSE 2

SchurSchemes == Schemes \ {"bgs_2x2", "jacobi_2x2"}

AllDirect(c) == [n \in 1..Required(c) |-> Direct]

\* the constructor arguments explored: [cls, niset, fields, solparams]
\* (a) well-formed configurations, every known scaling type and both factors in
\* use at each Schur level
ValidConfigs ==
    {[cls |-> c, niset |-> 2, fields |-> AllDirect(c),
      solparams |-> ScalingList(<<e, DefaultScaling>>)] :
        c \in {"schur_2x2", "simple_2x2"}, e \in KnownEntries}
    \cup
    {[cls |-> "schur_3x3", niset |-> 3, fields |-> AllDirect("schur_3x3"),
      solparams |-> ScalingList(<<e, [type |-> t, val |-> OtherVal(e.val)]>>)] :
        e \in KnownEntries, t \in KnownScaling}
    \cup
    {[cls |-> c, niset |-> 4, fields |-> AllDirect(c),
      solparams |-> ScalingList(<<[type |-> t, val |-> One],
                                  [type |-> NextType(t), val |-> Q(MaxVal)]>>)] :
        c \in {"schur_bgssym_4x4", "schur_bgs_4x4"}, t \in KnownScaling}
    \cup
    {[cls |-> c, niset |-> 2, fields |-> AllDirect(c), solparams |-> NoParams] :
        c \in {"bgs_2x2", "jacobi_2x2"}}

\* (b) the forms of 'schur_block_scaling': absent, a single entry, a list of one
\* or two entries, with known and unknown types
ScalingConfigs ==
    {[cls |-> c, niset |-> Required(c), fields |-> AllDirect(c), solparams |-> sp] :
        c \in SchurSchemes,
        sp \in {NoParams}
               \cup {ScalingDict(e) : e \in {f \in AllEntries :
                                               f.type \in {"rowsum", "lumped"}}}
               \cup {ScalingList(<<e>>) : e \in {f \in AllEntries :
                                                   f.type \in {"none", "lumped"}}}
               \cup {ScalingList(<<e[1], e[2]>>) :
                        e \in {f \in AllEntries \X AllEntries :
                                  "lumped" \in {f[1].type, f[2].type}}}}

\* (c) field counts and per-field solver kinds, right and wrong
FieldCountConfigs ==
    {[cls |-> c, niset |-> ni, fields |-> pf, solparams |-> NoParams] :
        c \in Schemes, ni \in 2..4,
        pf \in UNION {FieldConfigs(nf, {Ilu}) : nf \in 2..4}}
    \cup
    {[cls |-> "schur_2x2", niset |-> 2, fields |-> pf, solparams |-> NoParams] :
        pf \in FieldConfigs(2, {Amg, AmgGmres, DirectGmres, AmgFgmresTol})}

\* (d) Python inner solvers: both smoothers, an unknown name, no name
PythonConfigs ==
    UNION {{[cls |-> c, niset |-> Required(c), fields |-> pf,
             solparams |-> NoParams] :
               pf \in FieldConfigs(Required(c),
                                   {AmgPython("stat_iter_fixed"),
                                    AmgPython("stat_iter_fixed_scr"),
                                    AmgPython("richardson"), AmgPythonUnnamed,
                                    DirectNamed})} :
           c \in {"schur_2x2", "schur_3x3"}}

Configs == ValidConfigs \cup ScalingConfigs \cup FieldCountConfigs
           \cup PythonConfigs

(***************************************************************************)
(* State.                                                                  *)
(***************************************************************************)
VARIABLES
    cls,       \* the scheme class instantiated
    args,      \* the constructor arguments [iset, precond_fields, solparams]
    P,         \* the caller's global operator
    self,      \* the preconditioner instance
    x, y,      \* the caller's vectors of the last apply
    pc,        \* "new", "constructed", "created", "failed"
    err,       \* the exception that ended the instance's life, or "none"
    op,        \* the last operation
    Pset,      \* the operator seen by the last setUp, << >> before the first
    twice,     \* history: the last operation is of the kind of the one before it
    xprev,     \* history: the input of the apply right before the last apply
    solves,    \* the KSP.solve calls of the last operation, in order
    nksp       \* the number of KSP objects created so far

vars == <<cls, args, P, self, x, y, pc, err, op, Pset, twice, xprev, solves, nksp>>

World == [self |-> self, P |-> P, x |-> x, y |-> y, err |-> "none", ret |-> << >>,
          log |-> << >>, nksp |-> nksp]

Init ==
    \E cfg \in Configs :
        /\ cls = cfg.cls
        /\ args = [iset |-> Layout(cfg.niset), precond_fields |-> cfg.fields,
                   solparams |-> cfg.solparams]
        /\ P = Operator(MaxOperator, cfg.niset)
        /\ self = NoObject
        /\ x = ZeroVec(NDofs(cfg.niset))
        /\ y = Stale(NDofs(cfg.niset))
        /\ pc = "new"
        /\ err = "none"
        /\ op = "none"
        /\ Pset = << >>
        /\ twice = FALSE
        /\ xprev = << >>
        /\ solves = << >>
        /\ nksp = 0

\* cls(iset, precond_fields, printenh, solparams, comm)
Construct ==
    /\ pc = "new"
    /\ \E w \in {block_precond_init(args.iset, args.precond_fields,
                                     args.solparams)} :
           /\ self' = w.self
           /\ err' = w.err
           /\ pc' = IF w.err = "none" THEN "constructed" ELSE "failed"
    /\ op' = "init"
    /\ twice' = FALSE
    /\ solves' = << >>
    /\ UNCHANGED <<cls, args, P, x, y, Pset, xprev, nksp>>

Create ==
    /\ pc = "constructed"
    /\ \E w \in {create(cls, World)} :
           /\ self' = w.self
           /\ P' = w.P
           /\ err' = w.err
           /\ solves' = w.log
           /\ nksp' = w.nksp
           /\ pc' = IF w.err = "none" THEN "created" ELSE "failed"
    /\ op' = "create"
    /\ twice' = FALSE
    /\ UNCHANGED <<cls, args, x, y, Pset, xprev>>

SetUp ==
    /\ pc = "created"
    /\ \E w \in {setUp(cls, World)} :
           /\ self' = w.self
           /\ P' = w.P
           /\ err' = w.err
           /\ solves' = w.log
           /\ nksp' = w.nksp
           /\ pc' = IF w.err = "none" THEN "created" ELSE "failed"
           /\ Pset' = IF w.err = "none" THEN P ELSE Pset
    /\ op' = "setUp"
    /\ twice' = (op = "setUp")
    /\ xprev' = << >>
    /\ UNCHANGED <<cls, args, x, y>>

Apply ==
    /\ pc = "created"
    /\ \E xin \in RhsSet(Len(x)) :
          \E w \in {apply(cls, [World EXCEPT !.x = xin])} :
              /\ self' = w.self
              /\ P' = w.P
              /\ x' = w.x
              /\ y' = w.y
              /\ err' = w.err
              /\ solves' = w.log
              /\ nksp' = w.nksp
              /\ pc' = IF w.err = "none" THEN "created" ELSE "failed"
    /\ op' = "apply"
    /\ twice' = (op = "apply")
    /\ xprev' = IF op = "apply" THEN x ELSE << >>
    /\ UNCHANGED <<cls, args, Pset>>

\* the external assembler writes new values into the operator
Assemble ==
    /\ pc = "created"
    /\ \E Pnew \in Operators(Len(args.iset)) \ {P} : P' = Pnew
    /\ op' = "assemble"
    /\ twice' = (op = "assemble")
    /\ xprev' = << >>
    /\ solves' = << >>
    /\ UNCHANGED <<cls, args, self, x, y, pc, err, Pset, nksp>>

Next == Construct \/ Create \/ SetUp \/ Apply \/ Assemble

Spec == Init /\ [][Next]_vars


(***************************************************************************)
(* Properties.                                                             *)
(***************************************************************************)
\* every field solver of instance s is the exact (direct) one
ExactSolves(s) == \A n \in 1..Len(s.ksp_fields) : s.ksp_fields[n].pc = "lu"

\* the state right after an operation o of scheme c that returned
After(c, o) == cls = c /\ op = o /\ err = "none" /\ pc = "created"

\* the state right after a returned apply of scheme c on an instance whose last
\* setUp saw the current operator
Applied(c) == After(c, "apply") /\ Pset = P

\* (global operator) y - x
Residual == VecAXPY(MatMultVec(P, y), Q(-1), x)

UnitVec(n) == [i \in 1..n |-> IF i = 1 THEN One ELSE Zero]

\* block (i, j) of the current global operator
BlockOfP(i, j) == MatCreateSubMatrix(P, args.iset[i], args.iset[j])

\* C1 as stated: with scaling type 'none' and exact inner solves, the y returned
\* by schur_2x2.apply after create and setUp has zero residual, P y = x.
C1_ZeroResidual ==
    (Applied("schur_2x2") /\ ExactSolves(self)
        /\ self.schur_block_scaling[1].type = "none")
    => Residual = ZeroVec(Len(x))

\* C1 (amended): with scaling type 'none', factor val and exact inner solves,
\* schur_2x2.apply eliminates with C - val B Bt in place of the Schur
\* complement: the first block row of P y = x holds exactly and the second
\* block row carries the residual B (val I - A^-1) Bt y2; for A = 4 I,
\* C = 2 I, Bt = B = I, val = 1 and x = (1,0,0,0) it returns
\* y = (5/16, 0, -1/4, 0).
C1_ModifiedElimination ==
    (Applied("schur_2x2") /\ ExactSolves(self)
        /\ self.schur_block_scaling[1].type = "none"
        /\ \A i \in 1..Len(y) : y[i] # NaN)
    => LET is == args.iset
           val == self.schur_block_scaling[1].val
           t == MatMultVec(BlockOfP(1, 2), VecGetSubVector(y, is[2]))
           r2 == MatMultVec(BlockOfP(2, 1),
                            VecAXPY(VecScale(t, val), Q(-1),
                                    LUSolve(BlockOfP(1, 1), t)))
       IN  /\ VecGetSubVector(Residual, is[1]) = ZeroVec(Len(is[1]))
           /\ VecGetSubVector(Residual, is[2]) = r2
           /\ (P = Operator(1, 2) /\ val = One /\ x = UnitVec(4))
                 => y = <<<<5, 16>>, Zero, <<-1, 4>>, Zero>>

\* the golden example has been applied, and its residual is not zero
C1_Witness ==
    /\ Applied("schur_2x2") /\ ExactSolves(self)
    /\ self.schur_block_scaling[1] = [type |-> "none", val |-> One]
    /\ P = Operator(1, 2) /\ x = UnitVec(4)
    /\ Residual = <<Zero, Zero, <<-3, 16>>, Zero>>

\* the diagonal approximate inverse of block M for a scaling entry sc
RefInverse(sc, M) ==
    [i \in 1..NRows(M) |->
        [j \in 1..NRows(M) |->
            IF i # j THEN Zero
            ELSE IF sc.type = "diag" THEN RMul(sc.val, RDiv(One, M[i][i]))
            ELSE IF sc.type = "rowsum"
                 THEN RMul(sc.val, RDiv(One, RAbs(SumSeq(M[i]))))
            ELSE sc.val]]

\* C2: after a schur_2x2.setUp with type 'diag' or 'rowsum' (nonzero diagonal
\* and row sums) the matrix bound to field solver 1 is C - B Adinv Bt of the
\* current operator, Adinv being the diagonal approximate inverse this setUp
\* built for the configured type and factor, and field solver 0 is bound to A.
C2_SmodBound ==
    LET sc == self.schur_block_scaling[1]
        A == BlockOfP(1, 1)
    IN  ((After("schur_2x2", "setUp") \/ After("simple_2x2", "setUp"))
            /\ sc.type \in {"diag", "rowsum"}
            /\ \A i \in 1..NRows(A) : A[i][i] # Zero /\ SumSeq(A[i]) # Zero)
        => /\ self.Adinv = RefInverse(sc, A)
           /\ self[self.ksp_fields[2].op] =
                  MatAXPY(BlockOfP(2, 2), Q(-1),
                          MatMatMult(BlockOfP(2, 1),
                                     MatMatMult(self.Adinv, BlockOfP(1, 2))))
           /\ self[self.ksp_fields[1].op] = A

\* a setUp with type 'rowsum' and the larger factor on an operator whose block A
\* has a negative row sum
C2_Witness ==
    /\ After("schur_2x2", "setUp")
    /\ self.schur_block_scaling[1] = [type |-> "rowsum", val |-> Q(MaxVal)]
    /\ P = Operator(MaxOperator, 2)
    /\ SumSeq(BlockOfP(1, 1)[1])[1] < 0
    /\ self.Smod # BlockOfP(2, 2)

\* approximate inverses, Schur-complement matrices and solver bindings
SetupState(s) ==
    [a \in {"Adinv", "adinv_vec", "Smoddinv", "smoddinv_vec", "Smod", "Tmod",
            "Wmod", "ksp_fields"} \cap DOMAIN s |-> s[a]]

\* C3: for every Schur scheme, a setUp directly following a setUp (hence with
\* the same global operator) leaves all approximate inverses, Smod, Tmod, Wmod
\* and all field-solver bindings as the first setUp left them.
C3_SetUpIdempotent ==
    [][(cls \in SchurSchemes /\ op = "setUp" /\ err = "none" /\ op' = "setUp")
        => (err' = "none" /\ P' = P /\ SetupState(self') = SetupState(self))]_vars

\* a second setUp in a row of a 3-field scheme with type 'none' and a factor
\* other than 1 at the first level
C3_Witness ==
    /\ After("schur_3x3", "setUp") /\ twice
    /\ self.schur_block_scaling[1] = [type |-> "none", val |-> Q(MaxVal)]
    /\ self.Wmod # BlockOfP(3, 3)

\* C4 as stated: after create and setUp, jacobi_2x2.apply completes and returns
\* y1 = A^-1 x1 and y2 = C^-1 x2, each a function of its own block and input.
C4_JacobiSeparable ==
    (cls = "jacobi_2x2" /\ op = "apply" /\ Pset = P)
    => /\ err = "none"
       /\ VecGetSubVector(y, args.iset[1]) =
              LUSolve(BlockOfP(1, 1), VecGetSubVector(x, args.iset[1]))
       /\ VecGetSubVector(y, args.iset[2]) =
              LUSolve(BlockOfP(2, 2), VecGetSubVector(x, args.iset[2]))

\* every matrix an instance can hold: blocks, products, approximate inverses
\* and Schur-complement matrices
MatrixAttrs == BlockAttrs \cup ProductAttrs
               \cup {"Adinv", "Smoddinv", "Smod", "Tmod", "Wmod"}

\* the fields of instance s whose solver has been bound to a matrix
BoundFields(s) ==
    IF HasAttr(s, "ksp_fields")
    THEN {n \in 1..Len(s.ksp_fields) : s.ksp_fields[n].op # "none"}
    ELSE {}

\* no block extracted, no product formed, no solver created
NoWork(s) == DOMAIN s \cap (MatrixAttrs \cup {"ksp_fields"}) = {}

\* C5: if the number of index sets differs from the field count the scheme
\* requires, building the preconditioner fails with a configuration error (the
\* assertion of the constructor or of create) before any block is extracted or
\* any matrix product formed.
C5_FieldCountChecked ==
    Len(args.iset) # Required(cls)
    => /\ pc # "created"
       /\ op = "create" => pc = "failed"
       /\ pc = "failed" => err = "AssertionError"
       /\ NoWork(self)

\* create of a 3-field scheme over a 2-set partition has failed
C5_Witness ==
    /\ cls = "schur_3x3" /\ Len(args.iset) = 2 /\ Len(args.precond_fields) = 2
    /\ op = "create" /\ pc = "failed" /\ err = "AssertionError"

\* the levels of 'schur_block_scaling' a scheme reads
UsedLevels(c) == IF Required(c) = 2 THEN {1} ELSE {1, 2}

\* the resolved scaling of instance s names a type outside diag/rowsum/none at
\* a level scheme c reads
UnknownScalingType(c, s) ==
    /\ c \in SchurSchemes
    /\ HasAttr(s, "schur_block_scaling")
    /\ \E k \in UsedLevels(c) :
          /\ k <= Len(s.schur_block_scaling)
          /\ s.schur_block_scaling[k].type \notin {"diag", "rowsum", "none"}

\* the first field with a 'prec' other than amg and direct, 0 if there is none
FirstUnknownPrec(pf) ==
    IF \E n \in 1..Len(pf) : pf[n].prec \notin {"amg", "direct"}
    THEN CHOOSE n \in 1..Len(pf) :
            /\ pf[n].prec \notin {"amg", "direct"}
            /\ \A m \in 1..(n - 1) : pf[m].prec \in {"amg", "direct"}
    ELSE 0

\* C6 as stated: an unknown 'prec', an unknown scaling type and a mismatched
\* field count are each raised before any block has been extracted, any matrix
\* product formed or any field solver bound.
C6_ErrorsBeforeAnyWork ==
    (pc = "failed" /\ op \in {"init", "create"}
        /\ err \in {"AssertionError", "ValueError"})
    => NoWork(self)

\* C6 (amended): a mismatched field count is raised before any block is
\* extracted, any product formed or any solver created; an unknown scaling
\* type is raised after the blocks have been extracted but before any matrix
\* product is formed or any solver created; an unknown 'prec' of field n is
\* raised after all blocks and products have been formed and all solvers
\* created, with exactly the solvers of the fields before n bound.
C6_ErrorOrder ==
    (pc = "failed" /\ op \in {"init", "create"})
    => IF Len(args.iset) # Len(args.precond_fields)
          \/ Len(args.iset) # Required(cls)
       THEN err = "AssertionError" /\ NoWork(self)
       ELSE IF UnknownScalingType(cls, self)
       THEN /\ err = "ValueError"
            /\ {"A", "Bt", "B", "C", "Adinv"} \subseteq DOMAIN self
            /\ Required(cls) > 2 =>
                  {"Dt", "Et", "D", "E", "R"} \subseteq DOMAIN self
            /\ DOMAIN self \cap (ProductAttrs \cup {"ksp_fields"}) = {}
       ELSE FirstUnknownPrec(args.precond_fields) > 0
            => /\ err = "ValueError"
               /\ HasAttr(self, "ksp_fields")
               /\ Len(self.ksp_fields) = Required(cls)
               /\ cls \in SchurSchemes =>
                     {"Smod", "Adinv_Bt", "B_Adinv_Bt"} \subseteq DOMAIN self
               /\ BoundFields(self) =
                     1..(FirstUnknownPrec(args.precond_fields) - 1)

\* create of a 3-field scheme failed on the unknown 'prec' of its second field,
\* with the first field's solver bound to A and all products formed
C6_Witness ==
    /\ cls = "schur_3x3" /\ pc = "failed" /\ op = "create" /\ err = "ValueError"
    /\ FirstUnknownPrec(args.precond_fields) = 2
    /\ BoundFields(self) = {1}
    /\ HasAttr(self, "D_Adinv_Bt_Smoddinv_Tmod")

\* C7: for every Schur scheme, a scaling type other than diag, rowsum and none
\* at a Schur level of the scheme (the first entry for the 2-field schemes, the
\* first two for the 3- and 4-field schemes) makes create fail with a
\* configuration error; no field solver is ever created and neither setUp nor
\* apply ever runs.
C7_UnknownScalingFatal ==
    UnknownScalingType(cls, self)
    => /\ ~HasAttr(self, "ksp_fields")
       /\ pc # "created"
       /\ op \in {"init", "create"}
       /\ op = "create" =>
             /\ pc = "failed"
             /\ err \in {"ValueError", "AssertionError"}
             /\ Len(args.iset) = Required(cls) => err = "ValueError"

\* create of a 4-field scheme failed on the unknown type of the second level
C7_Witness ==
    /\ cls = "schur_bgs_4x4" /\ op = "create" /\ pc = "failed"
    /\ err = "ValueError"
    /\ self.schur_block_scaling[1].type = "none"
    /\ self.schur_block_scaling[2].type = "lumped"

\* the work vectors of an instance
WorkVectors == {"x1", "x2", "x3", "x4", "x123", "y1", "y2", "y3", "y4", "y123",
                "z1", "z2", "z3", "z4", "z123", "By1", "Bty2", "Dy1", "DBty2",
                "Ey2", "Tmody3", "Dty3", "Fty4", "Fy123", "xtmp"}

\* everything an instance holds but its work vectors: configuration, blocks,
\* products, approximate inverses, Schur-complement matrices, field solvers
\* and their bindings
DerivedState(s) == [a \in (DOMAIN s) \ WorkVectors |-> s[a]]

\* C8: for every scheme, an apply changes no extracted block, approximate
\* inverse, Schur-complement matrix or field-solver binding, so after any
\* number of applies they are as the last setUp left them.
C8_ApplyKeepsSetup ==
    [][op' = "apply" => DerivedState(self') = DerivedState(self)]_vars

\* a second apply in a row, with another input, of a 4-field scheme set up for
\* the current operator
C8_Witness ==
    /\ Applied("schur_bgssym_4x4") /\ twice /\ xprev # x
    /\ self.Wmod # BlockOfP(3, 3)

\* C9: neither the constructor nor create, setUp or apply changes the caller's
\* global operator; only the external assembler writes it.
C9_OperatorReadOnly ==
    [][op' \in {"init", "create", "setUp", "apply"} => P' = P]_vars

\* an apply after the assembler wrote the first operator and setUp extracted it
C9_Witness ==
    /\ Applied("bgs_2x2") /\ P = Operator(1, 2) /\ self.A = BlockOfP(1, 1)
    /\ \A i \in 1..Len(y) : y[i] # Stale(Len(y))[i]

\* world w with every work vector of the instance and the caller's y
\* overwritten by other content
Scrubbed(w) ==
    [w EXCEPT !.self = [a \in DOMAIN w.self |->
                           IF a \in WorkVectors
                           THEN [i \in 1..Len(w.self[a]) |-> Q(9)]
                           ELSE w.self[a]],
              !.y = [i \in 1..Len(w.y) |-> Q(9)]]

\* C10 as stated: for every scheme, the y an apply leaves is a function of the
\* setup state and x only: the same apply on an instance whose work vectors and
\* whose y hold other content gives the same y (every entry of y is
\* overwritten).
C10_ApplyReproducible ==
    [][op' = "apply"
        => y' = Bind(Scrubbed([World EXCEPT !.x = x']),
                     LAMBDA w : apply(cls, w).y)]_vars

\* field configuration pf selects one of the two smoothers as its Python solver
SelectsSmoother(pf) ==
    /\ pf.prec = "amg"
    /\ GetOr(pf, "solve", "preonly") = "python"
    /\ HasAttr(pf, "py_solver")
    /\ pf.py_solver \in {"stat_iter_fixed", "stat_iter_fixed_scr"}

\* the first field that selects a smoother, 0 if there is none
FirstSmoother(pf) ==
    IF \E n \in 1..Len(pf) : SelectsSmoother(pf[n])
    THEN CHOOSE n \in 1..Len(pf) :
            /\ SelectsSmoother(pf[n])
            /\ \A m \in 1..(n - 1) : ~SelectsSmoother(pf[m])
    ELSE 0

\* C11: the stationary smoothers are never active: with 'stat_iter_fixed' or
\* 'stat_iter_fixed_scr' selected as the Python solver of a field, create never
\* returns, and when the fields before it are direct ones it fails with the
\* RuntimeError of the smoother's constructor; so an instance never holds a
\* Python solver (every ksp_py_solver[n] is None, no KSP has a Python context)
\* and no setUp hands blocks to one.
C11_SmoothersDisabled ==
    /\ HasAttr(self, "ksp_py_solver")
          => \A n \in 1..Len(self.ksp_py_solver) :
                /\ self.ksp_fields[n].py = "none"
                /\ self.ksp_py_solver[n] = "None"
    /\ FirstSmoother(args.precond_fields) > 0
          => /\ pc # "created"
             /\ op \in {"none", "init", "create"}
             /\ (/\ op = "create"
                 /\ Len(args.iset) = Required(cls)
                 /\ ~UnknownScalingType(cls, self)
                 /\ \A m \in 1..(FirstSmoother(args.precond_fields) - 1) :
                       args.precond_fields[m].prec = "direct")
                   => err = "RuntimeError"

\* create of schur_2x2 failed in the constructor of stat_iter_fixed_scr, the
\* Python solver selected for field 1, after field 0 got its direct solver
C11_Witness ==
    /\ cls = "schur_2x2" /\ op = "create" /\ pc = "failed"
    /\ err = "RuntimeError"
    /\ args.precond_fields[2] = AmgPython("stat_iter_fixed_scr")
    /\ self.ksp_fields[1].op = "A" /\ self.ksp_fields[2].op = "none"
    /\ self.ksp_fields[2].type = "python"

\* the matrix each field solver of a scheme is bound to, by attribute name
Bindings(c) ==
    CASE c \in {"schur_2x2", "simple_2x2"} -> <<"A", "Smod">>
      [] c = "schur_3x3" -> <<"A", "Smod", "Wmod">>
      [] c \in {"schur_bgssym_4x4", "schur_bgs_4x4"} -> <<"A", "Smod", "Wmod", "G">>
      [] c \in {"bgs_2x2", "jacobi_2x2"} -> <<"A", "C">>

\* C12: the field solvers are created once, in create, one per field: before
\* create there is none, and after a create that returned, and after every
\* setUp and apply that follows, the solver objects are the ones create made
\* (no further KSP object has been created) and solver i is bound to the i-th
\* matrix of the scheme's list.
C12_SolversCreatedOnce ==
    /\ pc \in {"new", "constructed"}
          => nksp = 0 /\ ~HasAttr(self, "ksp_fields")
    /\ (pc = "created" \/ (pc = "failed" /\ op \in {"setUp", "apply"}))
          => /\ nksp = Required(cls)
             /\ Len(self.ksp_fields) = Required(cls)
             /\ \A n \in 1..Required(cls) :
                   /\ self.ksp_fields[n].id = n
                   /\ self.ksp_fields[n].op = Bindings(cls)[n]

\* a 4-field scheme right after its second setUp in a row, on an operator
\* other than the one create saw
C12_Witness ==
    /\ After("schur_bgs_4x4", "setUp") /\ twice
    /\ P = Operator(1, 4)
    /\ nksp = 4
    /\ self.ksp_fields[4].id = 4 /\ self.ksp_fields[4].op = "G"

\* the part of the caller's vector v on field f
Part(v, f) == VecGetSubVector(v, args.iset[f])

\* a - M b
Minus(a, M, b) == VecAXPY(a, Q(-1), MatMultVec(M, b))

\* the i-th solve of the last operation was made with field solver n, bound to
\* matrix m, on right-hand side b, and returned what that solver returns
SolveIs(i, n, m, b) ==
    /\ solves[i].ksp = self.ksp_fields[n].id
    /\ solves[i].op = m
    /\ solves[i].b = b
    /\ solves[i].x = KSPSolve(self, n, b)

\* C13: schur_2x2.apply makes three solves, in this order: y1 = solve(A, x1)
\* with solver 0; y2 = solve(Smod, x2 - B y1) with solver 1;
\* y1 = solve(A, x1 - Bt y2) with solver 0; and returns the last y1 on the index
\* set of field 0 and y2 on the index set of field 1.
C13_Schur2Steps ==
    After("schur_2x2", "apply")
    => /\ Len(solves) = 3
       /\ SolveIs(1, 1, "A", Part(x, 1))
       /\ SolveIs(2, 2, "Smod", Minus(Part(x, 2), self.B, solves[1].x))
       /\ SolveIs(3, 1, "A", Minus(Part(x, 1), self.Bt, solves[2].x))
       /\ Part(y, 1) = solves[3].x
       /\ Part(y, 2) = solves[2].x

\* an apply of schur_2x2 on a right-hand side without zero part whose third
\* solve changed y1
C13_Witness ==
    /\ After("schur_2x2", "apply")
    /\ Len(solves) = 3
    /\ \A i \in 1..Len(x) : x[i] # Zero
    /\ solves[3].x # solves[1].x
    /\ solves[2].b # Part(x, 2)

\* C14: with exact inner solves, the y returned by bgs_2x2.apply solves the
\* block lower-triangular system of the current operator, A y1 = x1 and
\* B y1 + C y2 = x2, field solver 1 being bound to C itself: the instance
\* holds no Schur complement, and Bt has no part in the two equations.
C14_BgsLowerTriangular ==
    (Applied("bgs_2x2") /\ ExactSolves(self))
    => /\ MatMultVec(BlockOfP(1, 1), Part(y, 1)) = Part(x, 1)
       /\ VecAXPY(MatMultVec(BlockOfP(2, 1), Part(y, 1)), One,
                  MatMultVec(BlockOfP(2, 2), Part(y, 2))) = Part(x, 2)
       /\ self.ksp_fields[2].op = "C"
       /\ self.C = BlockOfP(2, 2)
       /\ ~HasAttr(self, "Smod")

\* an apply of bgs_2x2 on the coupled operator where B y1 is not zero and the
\* first block row of the full system, which has Bt in it, is not satisfied
C14_Witness ==
    /\ Applied("bgs_2x2") /\ ExactSolves(self)
    /\ P = Operator(MaxOperator, 2)
    /\ MatMultVec(BlockOfP(2, 1), Part(y, 1)) # ZeroVec(2)
    /\ Part(Residual, 1) # ZeroVec(2)

\* C15: simple_2x2.apply makes two solves, y1 = solve(A, x1) with solver 0 and
\* y2 = solve(Smod, x2 - B y1) with solver 1, then corrects
\* y1 := y1 - (Adinv Bt) y2 with the product of the last setUp, and returns
\* (y1, y2); after its setUp, Adinv Bt and Smod = C - B Adinv Bt are the ones
\* schur_2x2 builds from the current operator and the configured scaling.
C15_SimpleSteps ==
    /\ After("simple_2x2", "apply")
       => /\ Len(solves) = 2
          /\ SolveIs(1, 1, "A", Part(x, 1))
          /\ SolveIs(2, 2, "Smod", Minus(Part(x, 2), self.B, solves[1].x))
          /\ Part(y, 1) = Minus(solves[1].x, self.Adinv_Bt, solves[2].x)
          /\ Part(y, 2) = solves[2].x
    /\ (cls = "simple_2x2" /\ pc = "created" /\ Pset = P)
       => LET Ad == RefInverse(self.schur_block_scaling[1], BlockOfP(1, 1)) IN
          /\ self.Adinv_Bt = MatMatMult(Ad, BlockOfP(1, 2))
          /\ self.Smod = MatAXPY(BlockOfP(2, 2), Q(-1),
                                 MatMatMult(BlockOfP(2, 1), self.Adinv_Bt))

\* an apply of simple_2x2 after a setUp whose approximate inverse is not the
\* identity, with a correction that changed y1
C15_Witness ==
    /\ Applied("simple_2x2")
    /\ Len(solves) = 2
    /\ self.Adinv_Bt # self.Bt
    /\ Part(y, 1) # solves[1].x

\* C16: schur_3x3.apply makes five solves, in the order solver 0 (A),
\* solver 1 (Smod), solver 2 (Wmod), solver 1 (Smod), solver 0 (A), on the
\* right-hand sides x1; x2 - B y1; x3 - D y1 + (D Adinv Bt) y2 - E y2;
\* x2 - B y1 - Tmod y3 with y1 of the first solve; x1 - Bt y2 - Dt y3 with y2
\* of the fourth solve; and returns y1 of the fifth, y2 of the fourth and y3
\* of the third solve.
C16_Schur3FiveSolves ==
    After("schur_3x3", "apply")
    => /\ Len(solves) = 5
       /\ SolveIs(1, 1, "A", Part(x, 1))
       /\ SolveIs(2, 2, "Smod", Minus(Part(x, 2), self.B, solves[1].x))
       /\ self.DBt = MatMatMult(self.D, MatMatMult(self.Adinv, self.Bt))
       /\ SolveIs(3, 3, "Wmod",
                  Minus(VecAXPY(Minus(Part(x, 3), self.D, solves[1].x), One,
                                MatMultVec(self.DBt, solves[2].x)),
                        self.E, solves[2].x))
       /\ SolveIs(4, 2, "Smod",
                  Minus(Minus(Part(x, 2), self.B, solves[1].x),
                        self.Tmod, solves[3].x))
       /\ SolveIs(5, 1, "A",
                  Minus(Minus(Part(x, 1), self.Bt, solves[4].x),
                        self.Dt, solves[3].x))
       /\ Part(y, 1) = solves[5].x
       /\ Part(y, 2) = solves[4].x
       /\ Part(y, 3) = solves[3].x

\* an apply of schur_3x3 in which the (D Adinv Bt) y2 term is not zero and
\* both back-substitution solves changed their unknown
C16_Witness ==
    /\ After("schur_3x3", "apply")
    /\ Len(solves) = 5
    /\ MatMultVec(self.DBt, solves[2].x) # ZeroVec(1)
    /\ solves[4].x # solves[2].x
    /\ solves[5].x # solves[1].x

\* X - Y Z
MatMinus(X, Y, Z) == MatAXPY(X, Q(-1), MatMatMult(Y, Z))

\* the entries scaling entry sc takes reciprocals of are not zero in M
ScalingDefined(sc, M) ==
    /\ sc.type = "diag" => \A i \in 1..NRows(M) : M[i][i] # Zero
    /\ sc.type = "rowsum" => \A i \in 1..NRows(M) : SumSeq(M[i]) # Zero

\* C17: after every schur_3x3.setUp (the diagonal or row sums that are
\* inverted being nonzero), with Adinv the approximate inverse of A
\* for the first scaling entry: Smod = C - B Adinv Bt, Tmod = Et - B Adinv Dt,
\* Smoddinv is the approximate inverse of this Smod for the second scaling
\* entry, and Wmod = R - D Adinv Dt - E Smoddinv Tmod
\* + D Adinv Bt Smoddinv Tmod, the blocks being those of the current operator.
C17_Schur3Products ==
    After("schur_3x3", "setUp")
    => LET sc == self.schur_block_scaling
           Ad == RefInverse(sc[1], BlockOfP(1, 1))
           S == MatMinus(BlockOfP(2, 2), BlockOfP(2, 1),
                         MatMatMult(Ad, BlockOfP(1, 2)))
           T == MatMinus(BlockOfP(2, 3), BlockOfP(2, 1),
                         MatMatMult(Ad, BlockOfP(1, 3)))
           Sd == RefInverse(sc[2], S)
           SdT == MatMatMult(Sd, T)
       IN  (ScalingDefined(sc[1], BlockOfP(1, 1)) /\ ScalingDefined(sc[2], S))
           =>
           /\ self.Adinv = Ad
           /\ self.Smod = S
           /\ self.Tmod = T
           /\ self.Smoddinv = Sd
           /\ self.Wmod =
                 MatAXPY(MatMinus(MatMinus(BlockOfP(3, 3), BlockOfP(3, 1),
                                           MatMatMult(Ad, BlockOfP(1, 3))),
                                  BlockOfP(3, 2), SdT),
                         One,
                         MatMatMult(BlockOfP(3, 1),
                                    MatMatMult(Ad, MatMatMult(BlockOfP(1, 2),
                                                              SdT))))

\* a setUp of schur_3x3 on a newly assembled operator, with a second scaling
\* level of type rowsum, where Smod differs from C and Wmod from R
C17_Witness ==
    /\ After("schur_3x3", "setUp")
    /\ P = Operator(1, 3)
    /\ self.schur_block_scaling[2].type = "rowsum"
    /\ ScalingDefined(self.schur_block_scaling[1], self.A)
    /\ ScalingDefined(self.schur_block_scaling[2], self.Smod)
    /\ self.Smod # self.C
    /\ self.Wmod # self.R
    /\ self.Smoddinv # MatIdentity(2)

\* the vector the 4-field applies hand to the 3-field apply: x123 - Ft y4 on
\* fields 0-2, for y4 the result of the first solve of the last operation
Xtmp ==
    VecSetValues(ZeroVec(Len(x)), self.iset_012,
                 Minus(VecGetSubVector(x, self.iset_012), self.Ft, solves[1].x))

\* the 3-field apply of the instance on Xtmp
Composite == schur_3x3_apply([World EXCEPT !.x = Xtmp])

\* C18: schur_bgssym_4x4.apply makes, in this order: y4' = solve(G, x4) with
\* solver 3; the 3-field apply (five solves) on z123 = x123 - Ft y4', giving
\* y123; y4 = solve(G, x4 - F y123) with solver 3; and returns y123 on fields
\* 0-2 and the second y4 on field 3: two G solves and one 3-field apply.
C18_BgsSymSteps ==
    After("schur_bgssym_4x4", "apply")
    => /\ Len(solves) = 7
       /\ SolveIs(1, 4, "G", Part(x, 4))
       /\ SubSeq(solves, 2, 6) = Composite.log
       /\ VecGetSubVector(y, self.iset_012)
             = VecGetSubVector(Composite.y, self.iset_012)
       /\ SolveIs(7, 4, "G",
                  Minus(Part(x, 4), self.F, VecGetSubVector(y, self.iset_012)))
       /\ Part(y, 4) = solves[7].x

\* an apply of schur_bgssym_4x4 where Ft y4' is not zero and the second G
\* solve changed y4
C18_Witness ==
    /\ After("schur_bgssym_4x4", "apply")
    /\ Len(solves) = 7
    /\ MatMultVec(self.Ft, solves[1].x) # ZeroVec(5)
    /\ solves[7].x # solves[1].x

\* C19: after a setUp of schur_bgs_4x4, every block, product, approximate
\* inverse, Schur complement and solver binding is what the setUp of
\* schur_bgssym_4x4 gives on the same operator; and its apply makes
\* y4 = solve(G, x4) with solver 3 and one 3-field apply (five solves) on
\* x123 - Ft y4, six solves in all, returns that y4 on field 3, and gives the
\* same solves and the same y whatever the block F holds.
C19_BgsSteps ==
    /\ After("schur_bgs_4x4", "setUp")
       => DerivedState(schur_bgssym_4x4_setUp(World).self) = DerivedState(self)
    /\ After("schur_bgs_4x4", "apply")
       => /\ Len(solves) = 6
          /\ SolveIs(1, 4, "G", Part(x, 4))
          /\ SubSeq(solves, 2, 6) = Composite.log
          /\ VecGetSubVector(y, self.iset_012)
                = VecGetSubVector(Composite.y, self.iset_012)
          /\ Part(y, 4) = solves[1].x
          /\ LET w0 == schur_bgs_4x4_apply(
                          [World EXCEPT !.self = SetAttr(self, "F", << >>)])
             IN  w0.y = y /\ w0.log = solves

\* an apply of schur_bgs_4x4 after a setUp on the current operator, where
\* F y123 is not zero, so that a second G solve would have changed y4
C19_Witness ==
    /\ Applied("schur_bgs_4x4")
    /\ Len(solves) = 6
    /\ MatMultVec(self.Ft, solves[1].x) # ZeroVec(5)
    /\ MatMultVec(self.F, VecGetSubVector(y, self.iset_012)) # ZeroVec(1)

\* matrix D is diagonal with i-th entry val/M_ii for type 'diag',
\* val/|sum_j M_ij| for type 'rowsum' and val for type 'none'
IsApproximateInverse(D, sc, M) ==
    /\ NRows(D) = NRows(M)
    /\ \A i, j \in 1..NRows(M) :
          D[i][j] = IF i # j THEN Zero
                    ELSE IF sc.type = "diag" THEN RDiv(sc.val, M[i][i])
                    ELSE IF sc.type = "rowsum"
                         THEN RDiv(sc.val, RAbs(SumSeq(M[i])))
                    ELSE sc.val

\* C20: after every setUp of a Schur scheme, the first or a repeated one, the
\* approximate inverse Adinv of A is diagonal with entries val (1/A_ii) for
\* 'diag', val (1/|sum_j A_ij|) for 'rowsum' and val for 'none', val being the
\* factor of the first scaling entry, and in the 3- and 4-field schemes
\* Smoddinv is the same for Smod and the second scaling entry (the inverted
\* diagonal or row sums being nonzero): the factor enters once.
C20_ApproximateInverse ==
    (cls \in SchurSchemes /\ op = "setUp" /\ err = "none")
    => LET sc == self.schur_block_scaling IN
       /\ ScalingDefined(sc[1], self.A)
             => IsApproximateInverse(self.Adinv, sc[1], self.A)
       /\ (Required(cls) > 2 /\ ScalingDefined(sc[2], self.Smod))
             => IsApproximateInverse(self.Smoddinv, sc[2], self.Smod)

\* the second setUp in a row of schur_3x3, with type rowsum on a block A that
\* has a negative row sum and type diag with the larger factor on Smod
C20_Witness ==
    /\ After("schur_3x3", "setUp") /\ twice
    /\ self.schur_block_scaling[1].type = "rowsum"
    /\ SumSeq(self.A[1])[1] < 0
    /\ self.schur_block_scaling[2] = [type |-> "diag", val |-> Q(MaxVal)]
    /\ ScalingDefined(self.schur_block_scaling[2], self.Smod)
    /\ self.Smoddinv[1][1] # Q(MaxVal)


\* a fresh instance of the same class and configuration after create and one
\* setUp, both on the current global operator
FreshSetUp ==
    Bind(block_precond_init(args.iset, args.precond_fields, args.solparams),
         LAMBDA w0 :
    Bind(create(cls, [World EXCEPT !.self = w0.self, !.nksp = 0]), LAMBDA w1 :
    setUp(cls, w1)))

\* C21: for every scheme, whatever operator changes, setUps and applies came
\* before, the blocks, products, approximate inverses, Schur-complement
\* matrices and solver bindings after a setUp are those of a fresh instance
\* that ran create and one setUp on the current global operator.
C21_SetUpHistoryFree ==
    (op = "setUp" /\ err = "none")
    => Bind(FreshSetUp, LAMBDA w :
           /\ w.err = "none"
           /\ DerivedState(self) = DerivedState(w.self))

\* a setUp of a 4-field scheme on an operator other than the one create saw,
\* after an apply has been made
C21_Witness ==
    /\ After("schur_bgssym_4x4", "setUp")
    /\ P = Operator(0, 4)
    /\ y # Stale(Len(y))
    /\ self.G # MatCreateSubMatrix(Operator(MaxOperator, 4), args.iset[4], args.iset[4])


\* the scaling entries a constructor call with the given solparams resolves to
\* according to the stated rule: the default twice, the single entry twice, or
\* the list as given
StatedScaling(sp) ==
    IF ~HasAttr(sp, "schur_block_scaling") THEN <<DefaultScaling, DefaultScaling>>
    ELSE IF sp.schur_block_scaling.kind = "dict"
    THEN <<sp.schur_block_scaling.item, sp.schur_block_scaling.item>>
    ELSE sp.schur_block_scaling.items

\* C22 as stated: an absent 'schur_block_scaling' resolves to type 'diag' with
\* factor 1 at both levels, a single entry to that entry at both levels, a list
\* to its k-th entry at level k, and a 3- or 4-field scheme always finds an
\* entry for each of its two levels (no lookup of a level fails).
C22_ScalingResolved ==
    HasAttr(self, "schur_block_scaling")
    => /\ self.schur_block_scaling = StatedScaling(args.solparams)
       /\ (Required(cls) > 2 /\ Len(args.iset) = Required(cls))
             => /\ \A k \in UsedLevels(cls) : k \in DOMAIN self.schur_block_scaling
                /\ err # "IndexError"


\* the first field at which the second loop of create raises, 0 if there is
\* none: an unknown 'prec', or an AMG field with a Python solve
FirstFailing(pf) ==
    LET Fails(n) == \/ pf[n].prec \notin {"amg", "direct"}
                    \/ pf[n].prec = "amg" /\ GetOr(pf[n], "solve", "preonly") = "python"
    IN  IF \E n \in 1..Len(pf) : Fails(n)
        THEN CHOOSE n \in 1..Len(pf) : Fails(n) /\ \A m \in 1..(n - 1) : ~Fails(m)
        ELSE 0

\* the fields whose options the second loop of create has read
OptionsRead(pf) ==
    IF FirstFailing(pf) = 0 THEN 1..Len(pf) ELSE 1..FirstFailing(pf)

\* C23: for every field whose options create has read, 'direct' gives a preonly
\* LU solver whatever the field's 'solve' option says; 'amg' gives the
\* configured 'solve' type, preonly if there is none; the stopping criteria
\* (maxiter, tolrel, tolabs, defaults 1000, 1e-5, 1e-50) are set exactly when
\* the type is gmres or fgmres; a 'prec' of field n other than these two makes
\* create fail with a configuration error, and the solvers of the fields after
\* n are left as they were created, without type, preconditioner or operator.
C23_SolverSelection ==
    HasAttr(self, "ksp_fields")
    => LET pf == args.precond_fields
           un == FirstUnknownPrec(pf)
       IN  /\ \A n \in OptionsRead(pf) :
                 LET k == self.ksp_fields[n] IN
                 /\ pf[n].prec = "direct"
                       => k.type = "preonly" /\ k.pc = "lu" /\ k.tol = "default"
                 /\ pf[n].prec = "amg"
                       => /\ k.type = GetOr(pf[n], "solve", "preonly")
                          /\ IF k.type \in {"gmres", "fgmres"}
                             THEN k.tol = [max_it |-> GetOr(pf[n], "maxiter", "1000"),
                                           rtol |-> GetOr(pf[n], "tolrel", "1e-5"),
                                           atol |-> GetOr(pf[n], "tolabs", "1e-50")]
                             ELSE k.tol = "default"
           /\ un > 0
                 => /\ pc = "failed" /\ op = "create" /\ err = "ValueError"
                    /\ \A m \in (un + 1)..Len(pf) :
                          self.ksp_fields[m] = NewKSP(self.ksp_fields[m].id)

\* create returned for a 2-field scheme whose second field is direct with a
\* 'solve' option of gmres
C23_Witness ==
    /\ After("schur_2x2", "create")
    /\ args.precond_fields[2] = DirectGmres
    /\ self.ksp_fields[2].type = "preonly"
    /\ self.ksp_fields[2].op = "Smod"


\* the operator create extracted the first blocks from
CreateOperator == Operator(MaxOperator, Len(args.iset))

\* C - B Bt of the operator create saw
UnscaledSchur ==
    LET is == args.iset IN
    MatMinus(MatCreateSubMatrix(CreateOperator, is[2], is[2]),
             MatCreateSubMatrix(CreateOperator, is[2], is[1]),
             MatCreateSubMatrix(CreateOperator, is[1], is[2]))

\* C24: for every Schur scheme, from create to the first setUp the approximate
\* inverse is the identity and the matrix bound to field solver 1 is C - B Bt
\* of the operator create saw, whatever scaling type and factor are configured,
\* and an apply made in that time solves with this matrix; after a setUp the
\* matrix bound to field solver 1 is C - B Adinv Bt of the current operator with
\* Adinv the approximate inverse of the configured type and factor.
C24_UnscaledBeforeSetUp ==
    cls \in SchurSchemes
    => /\ (pc = "created" /\ Pset = << >>)
          => /\ self.Adinv = MatIdentity(NRows(self.A))
             /\ self.ksp_fields[2].op = "Smod"
             /\ self.Smod = UnscaledSchur
             /\ op = "apply"
                   => /\ \E i \in 1..Len(solves) : solves[i].op = "Smod"
                      /\ \A i \in 1..Len(solves) :
                            solves[i].op = "Smod"
                            => solves[i].x =
                                  KSPSolve(SetAttr(self, "Smod", UnscaledSchur),
                                           2, solves[i].b)
       /\ (op = "setUp" /\ err = "none"
              /\ ScalingDefined(self.schur_block_scaling[1], BlockOfP(1, 1)))
          => /\ self.ksp_fields[2].op = "Smod"
             /\ self.Smod =
                   MatMinus(BlockOfP(2, 2), BlockOfP(2, 1),
                            MatMatMult(RefInverse(self.schur_block_scaling[1],
                                                  BlockOfP(1, 1)),
                                       BlockOfP(1, 2)))

\* an apply of schur_2x2 before any setUp, configured with type rowsum and the
\* larger factor: the matrix it solved with is not C - B Adinv Bt for that mode
C24_Witness ==
    /\ After("schur_2x2", "apply") /\ Pset = << >>
    /\ self.schur_block_scaling[1] = [type |-> "rowsum", val |-> Q(MaxVal)]
    /\ ScalingDefined(self.schur_block_scaling[1], self.A)
    /\ self[solves[2].op] #
          MatMinus(self.C, self.B,
                   MatMatMult(RefInverse(self.schur_block_scaling[1], self.A),
                              self.Bt))


\* the first block row of the system the instance holds, A y1 + Bt y2 (+ Dt y3)
\* minus x1, for the caller's x and y
FirstRowResidual ==
    LET r2 == VecAXPY(VecAXPY(MatMultVec(self.A, Part(y, 1)),
                              One, MatMultVec(self.Bt, Part(y, 2))),
                      Q(-1), Part(x, 1))
    IN  IF cls = "schur_3x3"
        THEN VecAXPY(r2, One, MatMultVec(self.Dt, Part(y, 3)))
        ELSE r2

\* C25: with exact inner solves and a result free of divisions by zero, for
\* every scaling type and factor the y returned by schur_2x2.apply satisfies
\* A y1 + Bt y2 = x1 and the y returned by schur_3x3.apply satisfies
\* A y1 + Bt y2 + Dt y3 = x1, for the blocks the instance holds; when the last
\* setUp saw the current operator this is the first block row of the global
\* system.
C25_FirstRowExact ==
    (cls \in {"schur_2x2", "schur_3x3"} /\ After(cls, "apply")
        /\ ExactSolves(self) /\ \A i \in 1..Len(y) : y[i] # NaN)
    => /\ FirstRowResidual = ZeroVec(Len(args.iset[1]))
       /\ Pset = P => Part(Residual, 1) = ZeroVec(Len(args.iset[1]))

\* an apply of schur_3x3 on the coupled operator with a first level of type
\* rowsum and the larger factor: the first block row holds, another does not
C25_Witness ==
    /\ Applied("schur_3x3") /\ ExactSolves(self)
    /\ \A i \in 1..Len(y) : y[i] # NaN
    /\ P = Operator(MaxOperator, 3)
    /\ self.schur_block_scaling[1] = [type |-> "rowsum", val |-> Q(MaxVal)]
    /\ Part(y, 3) # ZeroVec(1)
    /\ Residual # ZeroVec(Len(x))


\* M has no nonzero entry off its diagonal and no zero entry on it
IsInvertibleDiagonal(M) ==
    \A i, j \in 1..NRows(M) : (M[i][j] = Zero) <=> (i # j)

\* the inverse of an invertible diagonal matrix
DiagonalInverse(M) ==
    [i \in 1..NRows(M) |->
        [j \in 1..NRows(M) |-> IF i = j THEN RDiv(One, M[i][i]) ELSE Zero]]

\* C26: when block A of the operator is diagonal with nonzero diagonal, the
\* scaling is type 'diag' with factor 1 and the inner solves are exact, then
\* after setUp Smod is the Schur complement C - B A^-1 Bt, the y returned by
\* schur_2x2.apply solves the global 2-field system, P y = x, and
\* simple_2x2.apply on the same setup state and x returns the same y.
C26_ExactForDiagonalA ==
    (cls \in {"schur_2x2", "simple_2x2"} /\ Applied(cls) /\ ExactSolves(self)
        /\ self.schur_block_scaling[1] = DefaultScaling
        /\ IsInvertibleDiagonal(BlockOfP(1, 1)))
    => /\ self.Smod = MatMinus(BlockOfP(2, 2), BlockOfP(2, 1),
                               MatMatMult(DiagonalInverse(BlockOfP(1, 1)),
                                          BlockOfP(1, 2)))
       /\ Residual = ZeroVec(Len(x))
       /\ schur_2x2_apply(World).y = y
       /\ simple_2x2_apply(World).y = y

\* an apply of schur_2x2 with the default scaling on operator 0, whose A is
\* 4 I, on the right-hand side without zero entries
C26_Witness ==
    /\ Applied("schur_2x2") /\ ExactSolves(self)
    /\ self.schur_block_scaling[1] = DefaultScaling
    /\ P = Operator(0, 2)
    /\ IsInvertibleDiagonal(self.A)
    /\ self.Smod # self.C
    /\ \A i \in 1..Len(x) : x[i] # Zero /\ y[i] # Zero


\* the third field of the current operator is decoupled: Dt, Et, D, E are zero
ThirdDecoupled ==
    \A f \in {1, 2} :
        /\ \A i \in 1..Len(args.iset[f]) : BlockOfP(f, 3)[i][1] = Zero
        /\ \A j \in 1..Len(args.iset[f]) : BlockOfP(3, f)[1][j] = Zero

\* the degrees of freedom of fields 0 and 1
Fields01 == args.iset[1] \o args.iset[2]

\* schur_2x2 with the first two field configurations and the same solparams:
\* constructor, create, setUp and apply on the operator [[A, Bt], [B, C]] cut
\* out of the current operator, with right-hand side (x1, x2)
Reduced2x2 ==
    Bind(block_precond_init(Layout(2), SubSeq(args.precond_fields, 1, 2),
                            args.solparams), LAMBDA w0 :
    Bind([self |-> w0.self, P |-> MatCreateSubMatrix(P, Fields01, Fields01),
          x |-> VecGetSubVector(x, Fields01), y |-> Stale(Len(Fields01)),
          err |-> "none", ret |-> << >>, log |-> << >>, nksp |-> 0], LAMBDA w1 :
    Bind(create("schur_2x2", w1), LAMBDA w2 :
    Bind(setUp("schur_2x2", w2), LAMBDA w3 :
    apply("schur_2x2", w3)))))

\* C27: when Dt, Et, D and E of the operator are zero, after schur_3x3.setUp
\* Tmod is zero and Wmod equals R, and schur_3x3.apply returns on fields 0 and 1
\* what schur_2x2.apply returns for (x1, x2) on the operator [[A, Bt], [B, C]]
\* with the same first scaling entry, and on field 2 the solve of R with x3.
C27_ReducesTo2x2 ==
    (cls = "schur_3x3" /\ Len(args.iset) = 3 /\ ThirdDecoupled)
    => /\ After(cls, "setUp")
          => /\ self.Tmod = [i \in 1..NRows(self.Et) |-> <<Zero>>]
             /\ self.Wmod = BlockOfP(3, 3)
       /\ Applied(cls)
          => Bind(Reduced2x2, LAMBDA w :
                 /\ w.err = "none"
                 /\ Part(y, 1) = VecGetSubVector(w.y, Layout(2)[1])
                 /\ Part(y, 2) = VecGetSubVector(w.y, Layout(2)[2])
                 /\ Part(y, 3) = LUSolve(BlockOfP(3, 3), Part(x, 3)))

\* an apply of schur_3x3 set up on operator 0, created on the coupled operator,
\* with a first level of type none and the larger factor
C27_Witness ==
    /\ Applied("schur_3x3") /\ ThirdDecoupled
    /\ P = Operator(0, 3)
    /\ self.schur_block_scaling[1] = [type |-> "none", val |-> Q(MaxVal)]
    /\ \A i \in 1..Len(y) : y[i] \notin {NaN, Zero}


\* the apply of the other 4-field scheme on the same setup state, x and y
OtherApply4 ==
    IF cls = "schur_bgssym_4x4" THEN schur_bgs_4x4_apply(World)
    ELSE schur_bgssym_4x4_apply(World)

\* C28: on the same setup state and input x, schur_bgssym_4x4.apply and
\* schur_bgs_4x4.apply return the same values on fields 0, 1 and 2, and the
\* same y when the coupling block F is zero.
C28_BgsSymAgreesOn012 ==
    (cls \in {"schur_bgssym_4x4", "schur_bgs_4x4"} /\ After(cls, "apply"))
    => Bind(OtherApply4, LAMBDA w :
           /\ w.err = "none"
           /\ VecGetSubVector(w.y, self.iset_012)
                 = VecGetSubVector(y, self.iset_012)
           /\ (\A j \in 1..NCols(self.F) : self.F[1][j] = Zero) => w.y = y)

\* an apply of schur_bgssym_4x4 set up on operator 0, whose F is zero and
\* whose Ft is not, with a result without zero entries
C28_Witness ==
    /\ Applied("schur_bgssym_4x4")
    /\ P = Operator(0, 4)
    /\ \A j \in 1..NCols(self.F) : self.F[1][j] = Zero
    /\ \E i \in 1..NRows(self.Ft) : self.Ft[i][1] # Zero
    /\ \A i \in 1..Len(y) : y[i] \notin {NaN, Zero}
    /\ Len(solves) = 7


\* C29: for every scheme, after an apply the caller's x is the input that was
\* passed: it is one of the inputs, and the sub-vectors the apply read from it
\* at its start (x1, x2, x3, or x123 and x4) are still its parts; a 4-field
\* scheme hands to the inner 3-field apply the scratch vector xtmp, which
\* holds z123 on fields 0 to 2, so that the first solve of the composite is
\* made on the field-0 part of xtmp.
C29_ApplyKeepsInput ==
    op = "apply"
    => /\ x \in RhsSet(Len(x))
       /\ (err = "none" /\ Required(cls) \in {2, 3})
             => \A f \in 1..Required(cls) :
                   self[IF f = 1 THEN "x1" ELSE IF f = 2 THEN "x2" ELSE "x3"]
                      = Part(x, f)
       /\ (err = "none" /\ Required(cls) = 4)
             => /\ self.x123 = VecGetSubVector(x, self.iset_012)
                /\ self.x4 = Part(x, 4)
                /\ VecGetSubVector(self.xtmp, self.iset_012) = self.z123
                /\ solves[2].b = VecGetSubVector(self.xtmp, args.iset[1])

\* an apply of schur_bgs_4x4 after which xtmp differs from x on field 0
C29_Witness ==
    /\ Applied("schur_bgs_4x4")
    /\ \A i \in 1..Len(x) : x[i] # Zero
    /\ Part(x, 1) # VecGetSubVector(self.xtmp, args.iset[1])
    /\ solves[2].b = VecGetSubVector(self.xtmp, args.iset[1])
    /\ self.x123 = VecGetSubVector(x, self.iset_012)


\* a fresh instance of the same class and configuration after create and
\* setUp on the operator the last setUp saw, then apply on the current x
SnapshotApply ==
    Bind(block_precond_init(args.iset, args.precond_fields, args.solparams),
         LAMBDA w0 :
    Bind(create(cls, [World EXCEPT !.self = w0.self, !.P = Pset, !.nksp = 0]),
         LAMBDA w1 :
    Bind(setUp(cls, w1), LAMBDA w2 :
    apply(cls, w2))))

\* C30: when the assembler has changed the global operator after the last setUp
\* and an apply is made before the next setUp, the blocks, products and
\* Schur-complement matrices the instance holds, every solve of the apply and
\* the returned y are those of the operator version the last setUp saw: the
\* result equals the one given before the change.
C30_BlocksAreSnapshots ==
    (op = "apply" /\ err = "none" /\ Pset # << >> /\ Pset # P)
    => Bind(SnapshotApply, LAMBDA w :
           /\ w.err = "none"
           /\ DerivedState(self) = DerivedState(w.self)
           /\ solves = w.log
           /\ y = w.y)

\* an apply of simple_2x2 set up on operator 1 after the assembler wrote
\* operator 0: a setUp on the current operator would have given another y
C30_Witness ==
    /\ After("simple_2x2", "apply")
    /\ Pset = Operator(1, 2) /\ P = Operator(0, 2)
    /\ self.C # BlockOfP(2, 2)
    /\ y # Bind(setUp(cls, World), LAMBDA w : apply(cls, w).y)

=============================================================================
